---- MODULE Spec2Model ----
(***************************************************************************)
(* tenth-man-mcp: agent resolution, agent invocation and output            *)
(* normalisation, prompt building, consensus and the order of the stages   *)
(* of a review cycle, modelled from src/agents/resolver.ts, invoker.ts,    *)
(* prompt-builder.ts, result-merger.ts, config/loader.ts, report/writer.ts  *)
(* and the tool handlers of index.ts.                                      *)
(*                                                                         *)
(* A number is kept as an integer in thousandths (0.3 is 300, 7 is 7000)   *)
(* and stands for the IEEE double nearest to it.                           *)
(* A process's stdout is a sequence of lexical tokens.                     *)
(***************************************************************************)
EXTENDS Integers, Sequences, FiniteSets, TLC

VARIABLES config, entry, assignments, proc, promise, result, pc,
          mode, consensus, files, readable, templateCache, reads, settleOrder,
          runtimeConfig, persisted, detected, requests, active, history, index

\* The state of one call of executeAgents and of the review around it.
cycle == <<config, entry, assignments, proc, promise, result, pc,
           mode, consensus, files, readable, templateCache, reads, settleOrder>>

\* The state of the server across requests: the module's runtimeConfig, the
\* files under .tenth-man, the CLIs installed, and the requests in progress.
server == <<runtimeConfig, persisted, detected, requests, active, history, index>>

vars == <<cycle, server>>

(***************************************************************************)
(* Types (types.ts)                                                        *)
(***************************************************************************)
AgentRole == <<"devils_advocate", "architecture_critic", "pragmatist">>

Roles == {AgentRole[i] : i \in DOMAIN AgentRole}

AgentEngine == {"codex", "gemini", "claude"}

Verdict == {"proceed", "proceed_with_changes", "block"}

Via == {"subprocess", "subagent_prompt"}

MODELS == [codex |-> "gpt-5.3-codex", gemini |-> "gemini-3-pro-preview",
           claude |-> "claude-opus-4-6"]

ROLE_LABELS == [devils_advocate |-> "Devil's Advocate",
                architecture_critic |-> "Architecture Critic",
                pragmatist |-> "Pragmatist"]

\* Confidence of a verdict synthesised for a failed invocation (0.3).
ErrorConfidence == 300

\* Confidence substituted when the payload's confidence is not a number (0.5).
DefaultConfidence == 500

\* Confidence of the payload wrapped around unparseable output (0.4).
FallbackConfidence == 400

\* output.slice(0, 500)
SliceLen == 500

\* Default and smallest configurable timeout_seconds.
TimeoutDefault == 180

TimeoutMin == 30

(***************************************************************************)
(* Bounds                                                                  *)
(***************************************************************************)
\* Longest stdout, in tokens, of the normalisation specification.
MaxText == 4

(***************************************************************************)
(* Resolver (resolver.ts)                                                  *)
(***************************************************************************)
Assignment(role, engine, via) ==
    [role |-> role, engine |-> engine, model |-> MODELS[engine], via |-> via]

\* A slip in the gemini-only branch: the backend goes to the second role.
resolveAgentsGeminiSecond(cfg) ==
    LET hasCodex == "codex" \in cfg.available_agents
        hasGemini == "gemini" \in cfg.available_agents
    IN  IF hasCodex /\ hasGemini
        THEN << Assignment("devils_advocate", "codex", "subprocess"),
                Assignment("architecture_critic", "gemini", "subprocess"),
                Assignment("pragmatist", "claude", "subagent_prompt") >>
        ELSE IF hasCodex
        THEN << Assignment("devils_advocate", "codex", "subprocess"),
                Assignment("architecture_critic", "claude", "subagent_prompt"),
                Assignment("pragmatist", "claude", "subagent_prompt") >>
        ELSE IF hasGemini
        THEN << Assignment("devils_advocate", "claude", "subagent_prompt"),
                Assignment("architecture_critic", "gemini", "subprocess"),
                Assignment("pragmatist", "claude", "subagent_prompt") >>
        ELSE << Assignment("devils_advocate", "claude", "subagent_prompt"),
                Assignment("architecture_critic", "claude", "subagent_prompt"),
                Assignment("pragmatist", "claude", "subagent_prompt") >>

\* A slip in the two-backend branch: the two backends are swapped.
resolveAgentsSwapped(cfg) ==
    LET hasCodex == "codex" \in cfg.available_agents
        hasGemini == "gemini" \in cfg.available_agents
    IN  IF hasCodex /\ hasGemini
        THEN << Assignment("devils_advocate", "gemini", "subprocess"),
                Assignment("architecture_critic", "codex", "subprocess"),
                Assignment("pragmatist", "claude", "subagent_prompt") >>
        ELSE IF hasCodex
        THEN << Assignment("devils_advocate", "codex", "subprocess"),
                Assignment("architecture_critic", "claude", "subagent_prompt"),
                Assignment("pragmatist", "claude", "subagent_prompt") >>
        ELSE IF hasGemini
        THEN << Assignment("devils_advocate", "gemini", "subprocess"),
                Assignment("architecture_critic", "claude", "subagent_prompt"),
                Assignment("pragmatist", "claude", "subagent_prompt") >>
        ELSE << Assignment("devils_advocate", "claude", "subagent_prompt"),
                Assignment("architecture_critic", "claude", "subagent_prompt"),
                Assignment("pragmatist", "claude", "subagent_prompt") >>

resolveAgents(cfg) ==
    LET hasCodex == "codex" \in cfg.available_agents
        hasGemini == "gemini" \in cfg.available_agents
    IN  IF hasCodex /\ hasGemini
        THEN << Assignment("devils_advocate", "codex", "subprocess"),
                Assignment("architecture_critic", "gemini", "subprocess"),
                Assignment("pragmatist", "claude", "subagent_prompt") >>
        ELSE IF hasCodex
        THEN << Assignment("devils_advocate", "codex", "subprocess"),
                Assignment("architecture_critic", "claude", "subagent_prompt"),
                Assignment("pragmatist", "claude", "subagent_prompt") >>
        ELSE IF hasGemini
        THEN << Assignment("devils_advocate", "gemini", "subprocess"),
                Assignment("architecture_critic", "claude", "subagent_prompt"),
                Assignment("pragmatist", "claude", "subagent_prompt") >>
        ELSE << Assignment("devils_advocate", "claude", "subagent_prompt"),
                Assignment("architecture_critic", "claude", "subagent_prompt"),
                Assignment("pragmatist", "claude", "subagent_prompt") >>

(***************************************************************************)
(* JSON values, as JSON.parse returns them                                 *)
(***************************************************************************)
JNull == [t |-> "null"]

JUndefined == [t |-> "undefined"]

JNum(n) == [t |-> "number", n |-> n]

JStr(s) == [t |-> "string", s |-> s]

JArray(items) == [t |-> "array", items |-> items]

\* An object, by the properties the invoker and the merger read.
JObject(verdict, confidence, reasoning, critical_issues, recommendations) ==
    [t |-> "object", verdict |-> verdict, confidence |-> confidence,
     reasoning |-> reasoning, critical_issues |-> critical_issues,
     recommendations |-> recommendations,
     structural_issues |-> [t |-> "undefined"],
     phasing_suggestion |-> [t |-> "undefined"]]

EmptyObject == JObject(JUndefined, JUndefined, JUndefined, JUndefined, JUndefined)

\* The SyntaxError JSON.parse throws.
SyntaxError == [t |-> "SyntaxError"]

(***************************************************************************)
(* Process output: a sequence of lexical tokens                            *)
(***************************************************************************)
\* A code-fence marker (three backticks).
FENCE == "fence"

JSONTAG == "json"

WS == " "

LB == "{"

RB == "}"

COMMA == ","

NULL == "null"

NUM == "7"

PROSE == "prose"

\* "verdict":"block"   "verdict":7   "confidence":0.9   "confidence":5
MemberTokens == {"v:block", "v:7", "c:0.9", "c:5"}

Member(tok) ==
    CASE tok = "v:block" -> [key |-> "verdict", value |-> JStr("block")]
      [] tok = "v:7"     -> [key |-> "verdict", value |-> JNum(7000)]
      [] tok = "c:0.9"   -> [key |-> "confidence", value |-> JNum(900)]
      [] tok = "c:5"     -> [key |-> "confidence", value |-> JNum(5000)]

Tokens == {FENCE, JSONTAG, WS, LB, RB, COMMA, NULL, NUM, PROSE} \cup MemberTokens

Texts(n) == UNION {[1..k -> Tokens] : k \in 0..n}

Min(S) == CHOOSE x \in S : \A y \in S : x <= y

Max(S) == CHOOSE x \in S : \A y \in S : x >= y

NonWs(s) == {i \in 1..Len(s) : s[i] # WS}

\* String.prototype.trim
trim(s) == IF NonWs(s) = {} THEN <<>> ELSE SubSeq(s, Min(NonWs(s)), Max(NonWs(s)))

\* s without its first n tokens
Drop(s, n) == SubSeq(s, n + 1, Len(s))

\* .replace(/^<fence>(?:json)?\s*/i, ''): one leading fence marker, its tag
\* and the whitespace after it.
stripLeadingFence(s) ==
    IF Len(s) = 0 \/ s[1] # FENCE THEN s
    ELSE LET a == Drop(s, 1)
             b == IF Len(a) > 0 /\ a[1] = JSONTAG THEN Drop(a, 1) ELSE a
         IN  IF NonWs(b) = {} THEN <<>> ELSE Drop(b, Min(NonWs(b)) - 1)

\* .replace(/\s*<fence>\s*$/i, ''): one trailing fence marker and the
\* whitespace around it.
stripTrailingFence(s) ==
    IF NonWs(s) = {} \/ s[Max(NonWs(s))] # FENCE THEN s
    ELSE LET k == Max(NonWs(s))
             before == {i \in NonWs(s) : i < k}
         IN  SubSeq(s, 1, IF before = {} THEN 0 ELSE Max(before))

\* JSON.parse of a token sequence free of whitespace: null, a number, or an
\* object of comma-separated members (a later member of the same key wins).
RECURSIVE ObjectOf(_, _)
ObjectOf(members, obj) ==
    IF members = <<>> THEN obj
    ELSE LET m == Member(Head(members))
         IN  ObjectOf(Tail(members), [obj EXCEPT ![m.key] = m.value])

JSONparseTokens(toks) ==
    LET n == Len(toks)
        inner == SubSeq(toks, 2, n - 1)
        k == Len(inner)
    IN  IF n = 1 /\ toks[1] = NULL THEN JNull
        ELSE IF n = 1 /\ toks[1] = NUM THEN JNum(7000)
        ELSE IF n >= 2 /\ toks[1] = LB /\ toks[n] = RB
                /\ (k = 0 \/ k % 2 = 1)
                /\ \A i \in 1..k : IF i % 2 = 1 THEN inner[i] \in MemberTokens
                                                ELSE inner[i] = COMMA
        THEN ObjectOf(SelectSeq(inner, LAMBDA x : x \in MemberTokens), EmptyObject)
        ELSE SyntaxError

\* JSON.parse: whitespace between tokens is insignificant.
JSONparse(s) == JSONparseTokens(SelectSeq(s, LAMBDA x : x # WS))

\* cleaned.match(/\{[\s\S]*\}/): from the first "{" to the last "}".
NoMatch == <<"no match">>

jsonMatch(s) ==
    LET lbs == {i \in 1..Len(s) : s[i] = LB}
        rbs == {i \in 1..Len(s) : s[i] = RB}
    IN  IF lbs = {} \/ rbs = {} \/ Max(rbs) < Min(lbs) THEN NoMatch
        ELSE SubSeq(s, Min(lbs), Max(rbs))

\* The length in characters of a run of prose.
ProseLen == 200

\* The number of characters of a token.
Width(tok) ==
    CASE tok = FENCE -> 3
      [] tok = JSONTAG -> 4
      [] tok = NULL -> 4
      [] tok = PROSE -> ProseLen
      [] tok = "v:block" -> 17
      [] tok = "v:7" -> 11
      [] tok = "c:0.9" -> 16
      [] tok = "c:5" -> 14
      [] OTHER -> 1

\* s.length
RECURSIVE Length(_)
Length(s) == IF s = <<>> THEN 0 ELSE Width(Head(s)) + Length(Tail(s))

\* A slip: the whole text is embedded.
sliceWhole(s) == [whole |-> s, part |-> 0]

\* output.slice(0, 500): the tokens that lie within the first SliceLen
\* characters, and the number of characters kept of the token cut.
slice(s) ==
    LET n == Max({k \in 0..Len(s) : Length(SubSeq(s, 1, k)) <= SliceLen})
    IN  [whole |-> SubSeq(s, 1, n),
         part |-> IF n < Len(s) THEN SliceLen - Length(SubSeq(s, 1, n)) ELSE 0]

fallbackPayload(output, role) ==
    JObject(JStr("proceed_with_changes"), JNum(FallbackConfidence),
            [t |-> "string", label |-> ROLE_LABELS[role], raw |-> slice(output)],
            JArray(<<>>), JArray(<<>>))

cleanOutput(output) == trim(stripTrailingFence(stripLeadingFence(trim(output))))

parseAgentOutput(output, role) ==
    LET cleaned == cleanOutput(output)
        whole == JSONparse(cleaned)
        m == jsonMatch(cleaned)
        part == IF m = NoMatch THEN SyntaxError ELSE JSONparse(m)
    IN  IF whole # SyntaxError THEN whole
        ELSE IF part # SyntaxError THEN part
        ELSE fallbackPayload(output, role)

(***************************************************************************)
(* Invoker (invoker.ts)                                                    *)
(***************************************************************************)
VALID_VERDICTS == {"proceed", "proceed_with_changes", "block"}

isVerdict(v) == v.t = "string" /\ v.s \in VALID_VERDICTS

\* parsed.<key>: a property of an object, undefined on any other non-null value.
Prop(parsed, key) == IF parsed.t = "object" THEN parsed[key] ELSE JUndefined

NoVerdict == [none |-> TRUE]

NoError == [text |-> "none"]

\* How a child process can end (child_process.execFile with timeout and maxBuffer).
OutcomeKinds == {"exit0", "nonzero", "spawn_error", "timeout", "maxbuffer"}

Outcome(kind, stdout) == [kind |-> kind, stdout |-> stdout]

NotSpawned == Outcome("not_spawned", <<>>)

Running == Outcome("running", <<>>)

FailureOutcomes == {Outcome(k, <<>>) : k \in OutcomeKinds \ {"exit0"}}

\* The error execFileAsync rejects with: killed is set only when execFile
\* itself killed the child on expiry of the timeout option.
execFileError(outcome) ==
    [killed |-> outcome.kind = "timeout",
     message |-> CASE outcome.kind = "nonzero" -> "Command failed"
                   [] outcome.kind = "timeout" -> "Command failed"
                   [] outcome.kind = "spawn_error" -> "spawn ENOENT"
                   [] outcome.kind = "maxbuffer" -> "stdout maxBuffer length exceeded"]

ErrorVerdict(a, status, error) ==
    [role |-> a.role, engine |-> a.engine, model |-> a.model,
     verdict |-> "proceed_with_changes", confidence |-> ErrorConfidence,
     raw_output |-> JNull, status |-> status, error |-> error]

\* A slip in the catch block: the killed flag is not read.
invokeExternalCatchNoTimeout(a, cfg, err) ==
    ErrorVerdict(a, "error", [text |-> "Agent failed: ", message |-> err.message])

\* A slip in the catch block: every failed command counts as timed out.
invokeExternalCatchAnyFailure(a, cfg, err) ==
    ErrorVerdict(a, IF err.killed \/ err.message = "Command failed" THEN "timeout" ELSE "error",
                 IF err.killed \/ err.message = "Command failed"
                 THEN [text |-> "Agent timed out after", seconds |-> cfg.timeout_seconds]
                 ELSE [text |-> "Agent failed: ", message |-> err.message])

\* The catch block of invokeExternal.
invokeExternalCatch(a, cfg, err) ==
    ErrorVerdict(a, IF err.killed THEN "timeout" ELSE "error",
                 IF err.killed
                 THEN [text |-> "Agent timed out after", seconds |-> cfg.timeout_seconds]
                 ELSE [text |-> "Agent failed: ", message |-> err.message])

\* The verdict the try block of invokeExternal returns for a payload.
completedVerdict(a, parsed) ==
    [role |-> a.role, engine |-> a.engine, model |-> a.model,
     verdict |-> IF isVerdict(Prop(parsed, "verdict"))
                 THEN Prop(parsed, "verdict").s
                 ELSE "proceed_with_changes",
     confidence |-> IF Prop(parsed, "confidence").t = "number"
                    THEN Prop(parsed, "confidence").n
                    ELSE DefaultConfidence,
     raw_output |-> parsed, status |-> "completed", error |-> NoError]

\* The try block of invokeExternal after execFileAsync resolved; reading a
\* property of null throws a TypeError, which the catch block receives.
invokeExternalTry(a, cfg, stdout) ==
    LET parsed == parseAgentOutput(stdout, a.role)
    IN  IF parsed.t = "null"
        THEN invokeExternalCatch(a, cfg,
                 [killed |-> FALSE, message |-> "Cannot read properties of null"])
        ELSE completedVerdict(a, parsed)

Pending == [state |-> "pending", value |-> NoVerdict, reason |-> "none"]

Fulfilled(v) == [state |-> "fulfilled", value |-> v, reason |-> "none"]

Rejected(reason) == [state |-> "rejected", value |-> NoVerdict, reason |-> reason]

SupportedEngine(a) == a.engine \in {"codex", "gemini"}

\* invokeExternal up to its await: an unsupported engine throws before any
\* process is spawned, which rejects the promise.
invokeExternalStart(a) ==
    IF SupportedEngine(a) THEN Pending
    ELSE Rejected("Unsupported external engine")

\* invokeExternal from the end of its process on.
invokeExternalSettle(a, cfg, outcome) ==
    Fulfilled(IF outcome.kind = "exit0"
              THEN invokeExternalTry(a, cfg, outcome.stdout)
              ELSE invokeExternalCatch(a, cfg, execFileError(outcome)))

externalAssignmentsOf(as) == SelectSeq(as, LAMBDA a : a.via = "subprocess")

claudeAssignmentsOf(as) == SelectSeq(as, LAMBDA a : a.via = "subagent_prompt")

\* Promise.all in place of Promise.allSettled: the first failure ends the wait
\* for the invocations still running.
allSettledFailFast(promises, i, settled) ==
    IF settled.value.status = "completed"
    THEN [promises EXCEPT ![i] = settled]
    ELSE [j \in DOMAIN promises |->
             IF j = i THEN settled
             ELSE IF promises[j].state = "pending" THEN Rejected("aborted")
             ELSE promises[j]]

\* Promise.allSettled: a settled promise is recorded, no other is touched.
allSettled(promises, i, settled) == [promises EXCEPT ![i] = settled]

\* The review input of the cycle (opaque text).
input == [task_description |-> "task", proposed_changes |-> "changes",
          affected_files |-> <<"a.ts">>, context_files |-> <<>>]

(***************************************************************************)
(* Prompt builder (prompt-builder.ts).  readable is the set of directories *)
(* whose prompt files can be read, cache the module's templateCache; an    *)
(* operator that reads files or fills the cache returns the new cache and  *)
(* the reads it made beside its value.                                     *)
(***************************************************************************)
\* The candidate directories of loadTemplate, in the order tried.
DIST == "dist/prompts"

SRC == "src/prompts"

\* The content of a role's prompt file in a directory, and the inline prompt.
TemplateFile(dir, role) == [from |-> dir, role |-> role]

getFallbackPrompt(role) == [from |-> "inline", role |-> role]

NoTemplate == [from |-> "none"]

EmptyCache == [r \in Roles |-> NoTemplate]

\* fs.readFileSync(candidate, 'utf-8')
ReadFile(dir, role) == [op |-> "readFileSync", dir |-> dir, role |-> role]

\* A slip: the cache is not consulted.
loadTemplateNoCache(role, cache, dirs) ==
    IF DIST \in dirs
    THEN [content |-> TemplateFile(DIST, role),
          cache |-> [cache EXCEPT ![role] = TemplateFile(DIST, role)],
          reads |-> <<ReadFile(DIST, role)>>]
    ELSE IF SRC \in dirs
    THEN [content |-> TemplateFile(SRC, role),
          cache |-> [cache EXCEPT ![role] = TemplateFile(SRC, role)],
          reads |-> <<ReadFile(DIST, role), ReadFile(SRC, role)>>]
    ELSE [content |-> getFallbackPrompt(role), cache |-> cache,
          reads |-> <<ReadFile(DIST, role), ReadFile(SRC, role)>>]

loadTemplate(role, cache, dirs) ==
    IF cache[role] # NoTemplate
    THEN [content |-> cache[role], cache |-> cache, reads |-> <<>>]
    ELSE IF DIST \in dirs
    THEN [content |-> TemplateFile(DIST, role),
          cache |-> [cache EXCEPT ![role] = TemplateFile(DIST, role)],
          reads |-> <<ReadFile(DIST, role)>>]
    ELSE IF SRC \in dirs
    THEN [content |-> TemplateFile(SRC, role),
          cache |-> [cache EXCEPT ![role] = TemplateFile(SRC, role)],
          reads |-> <<ReadFile(DIST, role), ReadFile(SRC, role)>>]
    ELSE [content |-> getFallbackPrompt(role), cache |-> cache,
          reads |-> <<ReadFile(DIST, role), ReadFile(SRC, role)>>]

\* The template with its placeholders replaced by the fields of the input.
buildPrompt(role, in, cache, dirs) ==
    LET loaded == loadTemplate(role, cache, dirs)
    IN  [prompt |-> [template |-> loaded.content, input |-> in, json_only |-> FALSE],
         cache |-> loaded.cache, reads |-> loaded.reads]

buildStructuredPrompt(role, in, cache, dirs) ==
    [buildPrompt(role, in, cache, dirs) EXCEPT !.prompt.json_only = TRUE]

buildSubagentInstruction(a, in, cache, dirs) ==
    LET built == buildPrompt(a.role, in, cache, dirs)
    IN  [instruction |-> [role |-> a.role, model |-> "opus", prompt |-> built.prompt,
                          tools |-> <<"Read", "Glob", "Grep">>],
         cache |-> built.cache, reads |-> built.reads]

\* The template cache after the first n calls of a map over the assignments,
\* each call loading the template of its role, one call after the other.
RECURSIVE cacheAfter(_, _, _, _)
cacheAfter(as, n, cache, dirs) ==
    IF n = 0 THEN cache
    ELSE loadTemplate(as[n].role, cacheAfter(as, n - 1, cache, dirs), dirs).cache

\* The file reads of the first n calls of the map, in order.
RECURSIVE readsUpTo(_, _, _, _)
readsUpTo(as, n, cache, dirs) ==
    IF n = 0 THEN <<>>
    ELSE readsUpTo(as, n - 1, cache, dirs)
            \o loadTemplate(as[n].role, cacheAfter(as, n - 1, cache, dirs), dirs).reads

\* externalAssignments.map((a) => invokeExternal(a, input, config)): each
\* call builds its prompt before anything else, one call after the other.
invokeExternalPrompts(as, in, cache, dirs) ==
    [prompts |-> [i \in 1..Len(as) |->
                    buildStructuredPrompt(as[i].role, in,
                                          cacheAfter(as, i - 1, cache, dirs), dirs).prompt],
     cache |-> cacheAfter(as, Len(as), cache, dirs),
     reads |-> readsUpTo(as, Len(as), cache, dirs)]

\* claudeAssignments.map((a) => buildSubagentInstruction(a, input))
subagentInstructions(as, in, cache, dirs) ==
    [instructions |-> [i \in 1..Len(as) |->
                         buildSubagentInstruction(as[i], in,
                                                  cacheAfter(as, i - 1, cache, dirs),
                                                  dirs).instruction],
     cache |-> cacheAfter(as, Len(as), cache, dirs),
     reads |-> readsUpTo(as, Len(as), cache, dirs)]

\* A slip in the map over the settled results: rejected results are dropped.
verdictsOfDropRejected(ex, promises) ==
    LET kept == SelectSeq(promises, LAMBDA p : p.state = "fulfilled")
    IN  [i \in 1..Len(kept) |-> kept[i].value]

\* A slip in collecting the results: the verdicts are listed in the order in
\* which the invocations settled, those rejected at the start last.
verdictsOfSettleOrder(ex, promises) ==
    LET ended == {settleOrder[k] : k \in DOMAIN settleOrder}
        others == SelectSeq([i \in 1..Len(ex) |-> i], LAMBDA i : i \notin ended)
        order == settleOrder \o others
    IN  [i \in 1..Len(ex) |->
            IF promises[order[i]].state = "fulfilled" THEN promises[order[i]].value
            ELSE ErrorVerdict(ex[order[i]], "error",
                     [text |-> "Unexpected failure: ",
                      message |-> promises[order[i]].reason])]

\* externalResults.map(...): the value of a fulfilled promise, a synthesised
\* error verdict for a rejected one.
verdictsOf(ex, promises) ==
    [i \in 1..Len(ex) |->
        IF promises[i].state = "fulfilled" THEN promises[i].value
        ELSE ErrorVerdict(ex[i], "error",
                 [text |-> "Unexpected failure: ", message |-> promises[i].reason])]

NoResult == [status |-> "none", verdicts |-> <<>>, subagent_prompts |-> <<>>]

executeAgentsReturn(as, promises, in, cache, dirs) ==
    [status |-> "resolved",
     verdicts |-> verdictsOf(externalAssignmentsOf(as), promises),
     subagent_prompts |->
        subagentInstructions(claudeAssignmentsOf(as), in, cache, dirs).instructions]

(***************************************************************************)
(* JavaScript numbers: IEEE 754 doubles, rounded to nearest, ties to even. *)
(* A natural number is a sequence of limbs, least significant first; a     *)
(* double is m * 2^e with m of MantissaBits bits, or zero (m empty).       *)
(* Subnormals, infinities and NaN are out of the range of the model.       *)
(***************************************************************************)
LimbBits == 13

LimbBase == 8192

MantissaBits == 53

RECURSIVE NTrim(_)
NTrim(a) == IF a # <<>> /\ a[Len(a)] = 0 THEN NTrim(SubSeq(a, 1, Len(a) - 1)) ELSE a

Limb(a, i) == IF i <= Len(a) THEN a[i] ELSE 0

Rest(a) == IF a = <<>> THEN <<>> ELSE Tail(a)

RECURSIVE NFromInt(_)
NFromInt(n) == IF n = 0 THEN <<>> ELSE <<n % LimbBase>> \o NFromInt(n \div LimbBase)

RECURSIVE NToInt(_)
NToInt(a) == IF a = <<>> THEN 0 ELSE a[1] + LimbBase * NToInt(Tail(a))

RECURSIVE NAddC(_, _, _)
NAddC(a, b, carry) ==
    IF a = <<>> /\ b = <<>> THEN NFromInt(carry)
    ELSE LET t == Limb(a, 1) + Limb(b, 1) + carry
         IN  <<t % LimbBase>> \o NAddC(Rest(a), Rest(b), t \div LimbBase)

NAdd(a, b) == NAddC(a, b, 0)

\* a - b for a >= b
RECURSIVE NSubB(_, _, _)
NSubB(a, b, borrow) ==
    IF a = <<>> THEN <<>>
    ELSE LET t == a[1] - Limb(b, 1) - borrow
         IN  <<(t + LimbBase) % LimbBase>> \o NSubB(Tail(a), Rest(b), IF t < 0 THEN 1 ELSE 0)

NSub(a, b) == NTrim(NSubB(a, b, 0))

RECURSIVE NLessFrom(_, _, _)
NLessFrom(a, b, i) ==
    IF i = 0 THEN FALSE
    ELSE IF a[i] # b[i] THEN a[i] < b[i]
    ELSE NLessFrom(a, b, i - 1)

NLess(a, b) == IF Len(a) # Len(b) THEN Len(a) < Len(b) ELSE NLessFrom(a, b, Len(a))

\* a * k for one limb k
RECURSIVE NMulC(_, _, _)
NMulC(a, k, carry) ==
    IF a = <<>> THEN NFromInt(carry)
    ELSE LET t == a[1] * k + carry
         IN  <<t % LimbBase>> \o NMulC(Tail(a), k, t \div LimbBase)

NMulSmall(a, k) == NTrim(NMulC(a, k, 0))

RECURSIVE NMul(_, _)
NMul(a, b) ==
    IF b = <<>> THEN <<>>
    ELSE NTrim(NAdd(NMulSmall(a, b[1]), <<0>> \o NMul(a, Tail(b))))

\* a \div k for one limb k
RECURSIVE NDivFrom(_, _, _, _)
NDivFrom(a, k, i, rem) ==
    IF i = 0 THEN <<>>
    ELSE LET t == rem * LimbBase + a[i]
         IN  Append(NDivFrom(a, k, i - 1, t % k), t \div k)

NDivSmall(a, k) == NTrim(NDivFrom(a, k, Len(a), 0))

\* a * 2^k
NShl(a, k) ==
    IF a = <<>> THEN <<>>
    ELSE [i \in 1..(k \div LimbBits) |-> 0] \o NMulSmall(a, 2 ^ (k % LimbBits))

\* a \div 2^k
NShr(a, k) ==
    IF k \div LimbBits >= Len(a) THEN <<>>
    ELSE NDivSmall(SubSeq(a, k \div LimbBits + 1, Len(a)), 2 ^ (k % LimbBits))

RECURSIVE BitLenInt(_)
BitLenInt(n) == IF n = 0 THEN 0 ELSE 1 + BitLenInt(n \div 2)

BitLen(a) == IF a = <<>> THEN 0 ELSE LimbBits * (Len(a) - 1) + BitLenInt(a[Len(a)])

\* bit i of a, bit 0 the least significant
Bit(a, i) == (Limb(a, i \div LimbBits + 1) \div (2 ^ (i % LimbBits))) % 2

\* some bit below bit j of a is set
LowBits(a, j) ==
    \E i \in DOMAIN a :
        \/ i <= j \div LimbBits /\ a[i] # 0
        \/ i = j \div LimbBits + 1 /\ a[i] % (2 ^ (j % LimbBits)) # 0

Zero == [m |-> <<>>, e |-> 0]

\* The double nearest to (n + f) * 2^e, where 0 <= f < 1 and f > 0 iff sticky.
RoundToDouble(n, e, sticky) ==
    LET bl == BitLen(n)
        k == bl - MantissaBits
        q == NShr(n, k)
        up == Bit(n, k - 1) = 1 /\ (LowBits(n, k - 1) \/ sticky \/ Bit(q, 0) = 1)
        r == IF up THEN NAdd(q, <<1>>) ELSE q
    IN  IF n = <<>> THEN Zero
        ELSE IF bl <= MantissaBits THEN [m |-> NShl(n, -k), e |-> e + k]
        ELSE IF BitLen(r) > MantissaBits THEN [m |-> NShr(r, 1), e |-> e + k + 1]
        ELSE [m |-> r, e |-> e + k]

FromInt(n) == RoundToDouble(NFromInt(n), 0, FALSE)

\* a + b
FAdd(a, b) ==
    IF a.m = <<>> THEN b
    ELSE IF b.m = <<>> THEN a
    ELSE LET e == IF a.e < b.e THEN a.e ELSE b.e
         IN  RoundToDouble(NAdd(NShl(a.m, a.e - e), NShl(b.m, b.e - e)), e, FALSE)

\* a * b
FMul(a, b) ==
    IF a.m = <<>> \/ b.m = <<>> THEN Zero
    ELSE RoundToDouble(NMul(a.m, b.m), a.e + b.e, FALSE)

\* The next limb of the quotient rem / d, for rem < d, bit by bit.
RECURSIVE DivLimb(_, _, _, _)
DivLimb(rem, d, k, limb) ==
    IF k = 0 THEN [limb |-> limb, rem |-> rem]
    ELSE LET twice == NAdd(rem, rem)
         IN  IF NLess(twice, d) THEN DivLimb(twice, d, k - 1, 2 * limb)
             ELSE DivLimb(NSub(twice, d), d, k - 1, 2 * limb + 1)

\* n further limbs of the quotient rem / d, for rem < d
RECURSIVE DivLimbs(_, _, _)
DivLimbs(rem, d, n) ==
    IF n = 0 THEN [q |-> <<>>, rem |-> rem]
    ELSE LET top == DivLimb(rem, d, LimbBits, 0)
             low == DivLimbs(top.rem, d, n - 1)
         IN  [q |-> Append(low.q, top.limb), rem |-> low.rem]

\* a / b for b # 0: the quotient of the mantissas to 5 limbs and a bit,
\* rounded once.
FDiv(a, b) ==
    LET ge == ~NLess(a.m, b.m)
        d == DivLimbs(IF ge THEN NSub(a.m, b.m) ELSE a.m, b.m, 5)
        q == NTrim(d.q \o (IF ge THEN <<1>> ELSE <<>>))
    IN  IF a.m = <<>> THEN Zero
        ELSE RoundToDouble(q, a.e - b.e - 5 * LimbBits, d.rem # <<>>)

\* The double a numeral of the model stands for: the nearest to n / 1000.
Double(n) == FDiv(FromInt(n), FromInt(1000))

\* Math.round(x) for x >= 0: the nearest integer, halves upwards.
MathRound(x) ==
    IF x.m = <<>> THEN 0
    ELSE IF x.e >= 0 THEN NToInt(NShl(x.m, x.e))
    ELSE NToInt(NShr(x.m, -x.e)) + Bit(x.m, -x.e - 1)

(***************************************************************************)
(* Result merger (result-merger.ts)                                        *)
(***************************************************************************)
\* Confidence of the consensus when no verdict is completed (0.2).
DegradedConfidence == 200

\* Confidence of the consensus when the total weight is 0 (0.5).
ZeroWeightConfidence == 500

\* Weights of a completed and of any other verdict (1 and 0.3).
CompletedWeight == 1000

OtherWeight == 300

AllFailedIssue == "All agents failed or timed out - proceed with extreme caution"

RerunRecommendation == "Re-run the protocol or manually review the changes"

completedOf(verdicts) == SelectSeq(verdicts, LAMBDA v : v.status = "completed")

\* counts[d] after the counting loop
countOf(completed, d) == Cardinality({i \in DOMAIN completed : completed[i].verdict = d})

\* A slip in the decision rule: any block decides, as the header comment of
\* computeConsensus has it.
overallVerdictAnyBlock(completed) ==
    IF countOf(completed, "block") >= 1 THEN "block"
    ELSE IF countOf(completed, "proceed_with_changes") >= 1 THEN "proceed_with_changes"
    ELSE "proceed"

overallVerdict(completed) ==
    IF countOf(completed, "block") >= 2 THEN "block"
    ELSE IF countOf(completed, "block") = 1
            /\ countOf(completed, "proceed_with_changes") >= 1 THEN "proceed_with_changes"
    ELSE IF countOf(completed, "block") = 1 THEN "proceed_with_changes"
    ELSE IF countOf(completed, "proceed_with_changes") >= 1 THEN "proceed_with_changes"
    ELSE "proceed"

WeightOfCompleted == Double(CompletedWeight)

WeightOfOther == Double(OtherWeight)

Hundred == FromInt(100)

weightOf(v) == IF v.status = "completed" THEN WeightOfCompleted ELSE WeightOfOther

\* The loop over the list: totalWeight and weightedConfidence after it.
RECURSIVE confidenceLoop(_, _, _)
confidenceLoop(list, totalWeight, weighted) ==
    IF list = <<>> THEN [totalWeight |-> totalWeight, weightedConfidence |-> weighted]
    ELSE confidenceLoop(Tail(list),
             FAdd(totalWeight, weightOf(Head(list))),
             FAdd(weighted, FMul(Double(Head(list).confidence), weightOf(Head(list)))))

\* Math.round((weightedConfidence / totalWeight) * 100) / 100
weightedConfidence(list) ==
    LET sums == confidenceLoop(list, Zero, Zero)
    IN  IF sums.totalWeight.m # <<>>
        THEN 10 * MathRound(FMul(FDiv(sums.weightedConfidence, sums.totalWeight),
                                 Hundred))
        ELSE ZeroWeightConfidence

\* a ?? b
Coalesce(a, b) == IF a.t \in {"undefined", "null"} THEN b ELSE a

\* The numerals that occur in the model's payloads.
NumStr(n) == CASE n = 1000 -> "1" [] n = 2000 -> "2" [] n = 7000 -> "7" [] OTHER -> "0"

\* String(v) and template interpolation of a value
String(v) ==
    CASE v.t = "string" -> v.s
      [] v.t = "number" -> NumStr(v.n)
      [] v.t = "null" -> "null"
      [] v.t = "undefined" -> "undefined"
      [] OTHER -> "[object Object]"

\* An entry of a findings list that is an object.
Entry(title, description, phase, scope) ==
    [t |-> "object", title |-> title, description |-> description,
     phase |-> phase, scope |-> scope]

\* JSON.stringify of an entry: its defined properties in order (punctuation
\* simplified).
JSONstringify(e) ==
    LET field(k, v) == IF v.t = "undefined" THEN "" ELSE k \o ":" \o String(v) \o ";"
    IN  JStr("{" \o field("title", e.title) \o field("description", e.description)
             \o field("phase", e.phase) \o field("scope", e.scope) \o "}")

\* String(obj.title ?? obj.description ?? JSON.stringify(obj))
titleOf(e) == String(Coalesce(e.title, Coalesce(e.description, JSONstringify(e))))

\* Phase <phase>: <title ?? scope>
phaseOf(e) == "Phase " \o String(e.phase) \o ": " \o String(Coalesce(e.title, e.scope))

\* The items of output.<field> when that is an array, none otherwise.
itemsOf(output, field) == IF output[field].t = "array" THEN output[field].items ELSE <<>>

RECURSIVE Concat(_)
Concat(ss) == IF ss = <<>> THEN <<>> ELSE Head(ss) \o Concat(Tail(ss))

\* A loop that pushes a string for a string entry and for an object entry.
stringsAndObjects(items) ==
    Concat([i \in DOMAIN items |->
        IF items[i].t = "string" THEN <<items[i].s>>
        ELSE IF items[i].t = "object" THEN <<titleOf(items[i])>>
        ELSE <<>>])

\* A loop that pushes a string for an object entry only.
objectsOnly(items) ==
    Concat([i \in DOMAIN items |->
        IF items[i].t = "object" THEN <<titleOf(items[i])>> ELSE <<>>])

phasesOnly(items) ==
    Concat([i \in DOMAIN items |->
        IF items[i].t = "object" THEN <<phaseOf(items[i])>> ELSE <<>>])

\* !v.raw_output || typeof v.raw_output !== 'object' (an array is an object
\* without any of the list properties)
scanned(v) == v.raw_output.t = "object"

\* A slip in the deduplication: last occurrences are kept.
RECURSIVE dedupeLast(_)
dedupeLast(list) ==
    IF list = <<>> THEN <<>>
    ELSE IF \E i \in DOMAIN Tail(list) : Tail(list)[i] = Head(list)
    THEN dedupeLast(Tail(list))
    ELSE <<Head(list)>> \o dedupeLast(Tail(list))

\* [...new Set(list)]: first occurrences, in order.
RECURSIVE dedupe(_)
dedupe(list) ==
    IF list = <<>> THEN <<>>
    ELSE LET front == dedupe(SubSeq(list, 1, Len(list) - 1))
             last == list[Len(list)]
         IN  IF \E i \in DOMAIN front : front[i] = last THEN front
             ELSE Append(front, last)

extractCriticalIssues(verdicts) ==
    dedupe(Concat([i \in DOMAIN verdicts |->
        IF ~scanned(verdicts[i]) THEN <<>>
        ELSE stringsAndObjects(itemsOf(verdicts[i].raw_output, "critical_issues"))
             \o objectsOnly(itemsOf(verdicts[i].raw_output, "structural_issues"))]))

extractRecommendations(verdicts) ==
    dedupe(Concat([i \in DOMAIN verdicts |->
        IF ~scanned(verdicts[i]) THEN <<>>
        ELSE stringsAndObjects(itemsOf(verdicts[i].raw_output, "recommendations"))
             \o phasesOnly(itemsOf(verdicts[i].raw_output, "phasing_suggestion"))]))

Consensus(verdict, confidence, critical_issues, recommendations) ==
    [verdict |-> verdict, confidence |-> confidence,
     critical_issues |-> critical_issues, recommendations |-> recommendations]

\* A slip: the early return for no completed verdict is missing.
computeConsensusNoEarlyReturn(verdicts) ==
    Consensus(overallVerdict(completedOf(verdicts)),
              weightedConfidence(completedOf(verdicts)),
              extractCriticalIssues(verdicts), extractRecommendations(verdicts))

computeConsensus(verdicts) ==
    LET completed == completedOf(verdicts)
    IN  IF Len(completed) = 0
        THEN Consensus("proceed_with_changes", DegradedConfidence,
                       <<AllFailedIssue>>, <<RerunRecommendation>>)
        ELSE Consensus(overallVerdict(completed), weightedConfidence(completed),
                       extractCriticalIssues(verdicts), extractRecommendations(verdicts))

(***************************************************************************)
(* State machine of one call of executeAgents                              *)
(***************************************************************************)
Configs ==
    [available_agents : SUBSET {"codex", "gemini"},
     timeout_seconds : {TimeoutMin, TimeoutDefault}]

\* Assignment lists a caller of executeAgents can pass: one per role, any
\* engine, either invocation mode.
AnyAssignments ==
    {<<Assignment(AgentRole[1], e[1], v[1]), Assignment(AgentRole[2], e[2], v[2]),
       Assignment(AgentRole[3], e[3], v[3])>> :
        e \in [1..3 -> AgentEngine], v \in [1..3 -> Via]}

\* What a backend prints in the review-cycle specification.
CycleOutputs ==
    {<<LB, "v:block", COMMA, "c:0.9", RB>>, <<PROSE>>, <<NULL>>, <<LB, "c:5", RB>>}

ext == externalAssignmentsOf(assignments)

NoConsensus == [verdict |-> "none"]

\* Files of the repository the handler writes.
GITIGNORE == ".gitignore"

CLAUDE_MD == "CLAUDE.md"

REVIEW_MD == ".tenth-man/active/REVIEW.md"

OUTCOME_JSON == ".tenth-man/history/<audit>/outcome.json"

INDEX_JSON == ".tenth-man/index.json"

Modes == {"standard", "auto"}

\* let runtimeConfig: RuntimeConfig | null = null
Null == [t |-> "null"]

\* No .tenth-man/config.json.
NoFile == [t |-> "absent"]

\* The server and the repository before the first request.
ServerAtRest ==
    /\ runtimeConfig = Null
    /\ persisted = NoFile
    /\ detected = {}
    /\ requests = <<>>
    /\ active = [review |-> NoFile, plan |-> NoFile]
    /\ history = <<>>
    /\ index = <<>>

Init ==
    /\ config \in Configs
    /\ entry = "none"
    /\ assignments = <<>>
    /\ proc = <<>>
    /\ promise = <<>>
    /\ result = NoResult
    /\ pc = "idle"
    /\ mode = "none"
    /\ consensus = NoConsensus
    /\ files = {}
    /\ readable = {DIST, SRC}
    /\ templateCache = EmptyCache
    /\ reads = <<>>
    /\ settleOrder = <<>>
    /\ ServerAtRest

\* tenth_man_review up to the call of executeAgents, in a repository that has
\* none of the files yet: the mode is resolved, ensureGitignore and
\* ensureClaudeMd write their files, ensureDirectories makes directories only,
\* and resolveAgents(config) gives the assignments.
Resolve ==
    /\ pc = "idle"
    /\ entry' = "resolver"
    /\ mode' \in Modes
    /\ files' = files \cup {GITIGNORE, CLAUDE_MD}
    /\ assignments' = resolveAgents(config)
    /\ pc' = "resolved"
    /\ UNCHANGED <<config, proc, promise, result, consensus,
                   readable, templateCache, reads>>
    /\ UNCHANGED <<settleOrder, server>>

\* A caller passes executeAgents an assignment list of its own.
DirectCall ==
    /\ pc = "idle"
    /\ entry' = "direct"
    /\ assignments' \in AnyAssignments
    /\ pc' = "resolved"
    /\ UNCHANGED <<config, proc, promise, result, mode, consensus, files,
                   readable, templateCache, reads>>
    /\ UNCHANGED <<settleOrder, server>>

\* executeAgents up to its await: every subprocess assignment is started.
ExecuteStart ==
    /\ pc = "resolved"
    /\ promise' = [i \in 1..Len(ext) |-> invokeExternalStart(ext[i])]
    /\ proc' = [i \in 1..Len(ext) |->
                   IF SupportedEngine(ext[i]) THEN Running ELSE NotSpawned]
    /\ templateCache' = invokeExternalPrompts(ext, input, templateCache, readable).cache
    /\ reads' = reads \o invokeExternalPrompts(ext, input, templateCache, readable).reads
    /\ pc' = "awaiting"
    /\ UNCHANGED <<config, entry, assignments, result, mode, consensus, files, readable>>
    /\ settleOrder' = <<>>
    /\ UNCHANGED server

\* The process of invocation i ends; its continuation runs to the return.
ProcessEnds(i, outcome) ==
    /\ proc' = [proc EXCEPT ![i] = outcome]
    /\ settleOrder' = Append(settleOrder, i)
    /\ UNCHANGED server
    /\ promise' = allSettled(promise, i, invokeExternalSettle(ext[i], config, outcome))
    /\ UNCHANGED <<config, entry, assignments, result, pc, mode, consensus, files,
                   readable, templateCache, reads>>

ProcessEndsIn(outputs) ==
    /\ pc = "awaiting"
    /\ \E i \in DOMAIN promise :
        /\ promise[i].state = "pending"
        /\ proc[i] = Running
        /\ \E outcome \in FailureOutcomes \cup {Outcome("exit0", t) : t \in outputs} :
              ProcessEnds(i, outcome)

\* A slip in the await: it returns once any promise is settled.
awaitAllSettledAny(promises) ==
    promises = <<>> \/ \E i \in DOMAIN promises : promises[i].state # "pending"

\* await Promise.allSettled(promises) returns once every promise is settled.
awaitAllSettled(promises) ==
    \A i \in DOMAIN promises : promises[i].state # "pending"

\* The rest of executeAgents after the await.
Join ==
    /\ pc = "awaiting"
    /\ awaitAllSettled(promise)
    /\ result' = executeAgentsReturn(assignments, promise, input, templateCache, readable)
    /\ templateCache' = subagentInstructions(claudeAssignmentsOf(assignments), input,
                                             templateCache, readable).cache
    /\ reads' = reads \o subagentInstructions(claudeAssignmentsOf(assignments), input,
                                              templateCache, readable).reads
    /\ pc' = "done"
    /\ UNCHANGED <<config, entry, assignments, proc, promise, mode, consensus, files,
                   readable>>
    /\ UNCHANGED <<settleOrder, server>>

\* tenth_man_review: const consensus = computeConsensus(verdicts)
Merge ==
    /\ pc = "done"
    /\ entry = "resolver"
    /\ consensus' = computeConsensus(result.verdicts)
    /\ pc' = "merged"
    /\ UNCHANGED <<config, entry, assignments, proc, promise, result, mode, files,
                   readable, templateCache, reads>>
    /\ UNCHANGED <<settleOrder, server>>

\* writeReviewFile: the review file of the standard mode.
writeReviewFile(fs) == fs \cup {REVIEW_MD}

\* archiveToHistory and its updateIndex, with no active review or plan file
\* to move.
archiveToHistory(fs) == fs \cup {OUTCOME_JSON, INDEX_JSON}

\* tenth_man_review after the consensus: the branch of the resolved mode.
Report ==
    /\ pc = "merged"
    /\ files' = IF mode = "standard" THEN writeReviewFile(files)
                ELSE archiveToHistory(files)
    /\ pc' = "reported"
    /\ UNCHANGED <<config, entry, assignments, proc, promise, result, mode, consensus,
                   readable, templateCache, reads>>
    /\ UNCHANGED <<settleOrder, server>>

Next ==
    \/ Resolve
    \/ DirectCall
    \/ ExecuteStart
    \/ ProcessEndsIn(CycleOutputs)
    \/ Join
    \/ Merge
    \/ Report

Spec == Init /\ [][Next]_vars

(***************************************************************************)
(* The text of a prompt (prompt-builder.ts, buildPrompt).  A text is a     *)
(* sequence of tokens; a placeholder, a replacement pattern and a line     *)
(* break are tokens of their own.  Of the replacement patterns of          *)
(* String.prototype.replaceAll, $& and $$ are in the range of the model.   *)
(***************************************************************************)
PH_TASK == "{{task_description}}"

PH_CHANGES == "{{proposed_changes}}"

PH_FILES == "{{affected_files}}"

PH_CONTEXT == "{{context_files}}"

Placeholders == <<PH_TASK, PH_CHANGES, PH_FILES, PH_CONTEXT>>

MATCHED == "$&"

DOLLARS == "$$"

DOLLAR == "$"

NEWLINE == "\n"

NONE_PROVIDED == "(none provided)"

\* The text of a template: the prompt file of a role, or the inline prompt;
\* each names the four placeholders once.
templateText(content) ==
    <<content.from, content.role, "Task: ", PH_TASK, "Proposed Changes: ", PH_CHANGES,
      "Affected Files: ", PH_FILES, "Context: ", PH_CONTEXT>>

\* Array.prototype.join('\n')
RECURSIVE join(_)
join(list) ==
    IF list = <<>> THEN <<>>
    ELSE IF Len(list) = 1 THEN list[1]
    ELSE list[1] \o <<NEWLINE>> \o join(Tail(list))

\* GetSubstitution: the text a replacement string stands for at a match.
substitution(value, matched) ==
    [i \in DOMAIN value |->
        IF value[i] = MATCHED THEN matched
        ELSE IF value[i] = DOLLARS THEN DOLLAR
        ELSE value[i]]

\* template.replaceAll(placeholder, value): every occurrence of the
\* placeholder in the text is replaced by the substitution of the value.
replaceAll(text, placeholder, value) ==
    Concat([i \in DOMAIN text |->
        IF text[i] = placeholder THEN substitution(value, placeholder)
        ELSE <<text[i]>>])

\* const replacements = {...}: the value of each placeholder.
replacements(in) ==
    <<in.task_description, in.proposed_changes, join(in.affected_files),
      IF in.context_files.t = "undefined" THEN <<NONE_PROVIDED>>
      ELSE join(in.context_files.items)>>

\* for (const [placeholder, value] of Object.entries(replacements)): the
\* first n placeholders replaced in the text, one after the other.
RECURSIVE replaceFirst(_, _, _)
replaceFirst(text, in, n) ==
    IF n = 0 THEN text
    ELSE replaceAll(replaceFirst(text, in, n - 1), Placeholders[n], replacements(in)[n])

\* buildPrompt, given the template loadTemplate returned.
buildPromptText(template, in) == replaceFirst(template, in, Len(Placeholders))

(***************************************************************************)
(* One invocation over every stdout of up to MaxText tokens                *)
(***************************************************************************)
InitNormalize ==
    /\ config = [available_agents |-> {"codex", "gemini"},
                 timeout_seconds |-> TimeoutDefault]
    /\ entry = "direct"
    /\ assignments \in {<<Assignment("devils_advocate", "codex", "subprocess")>>,
                        <<Assignment("architecture_critic", "gemini", "subprocess")>>}
    /\ proc = <<>>
    /\ promise = <<>>
    /\ result = NoResult
    /\ pc = "resolved"
    /\ mode = "none"
    /\ consensus = NoConsensus
    /\ files = {}
    /\ readable = {DIST, SRC}
    /\ templateCache = EmptyCache
    /\ reads = <<>>
    /\ settleOrder = <<>>
    /\ ServerAtRest

NextNormalize == ExecuteStart \/ ProcessEndsIn(Texts(MaxText)) \/ Join

SpecNormalize == InitNormalize /\ [][NextNormalize]_vars

(***************************************************************************)
(* One review cycle of a server that has run cycles before, over every     *)
(* set of readable prompt directories and every content of the cache       *)
(***************************************************************************)
\* What the cache can hold for a role: nothing, or a file read earlier.
Caches ==
    [Roles -> {NoTemplate}] \cup
    {[r \in Roles |-> IF r \in cached THEN TemplateFile(dir, r) ELSE NoTemplate] :
        cached \in SUBSET Roles \ {{}}, dir \in {DIST, SRC}}

InitPrompt ==
    /\ config \in Configs
    /\ entry = "none"
    /\ assignments = <<>>
    /\ proc = <<>>
    /\ promise = <<>>
    /\ result = NoResult
    /\ pc = "idle"
    /\ mode = "none"
    /\ consensus = NoConsensus
    /\ files = {}
    /\ readable \in SUBSET {DIST, SRC}
    /\ templateCache \in Caches
    /\ reads = <<>>
    /\ settleOrder = <<>>
    /\ ServerAtRest

\* Every process prints an empty object.
NextPrompt == Resolve \/ ExecuteStart \/ ProcessEndsIn({<<LB, RB>>}) \/ Join

SpecPrompt == InitPrompt /\ [][NextPrompt]_vars

(***************************************************************************)
(* computeConsensus over every verdict list of up to MaxVerdicts verdicts  *)
(***************************************************************************)
MaxVerdicts == 3

AnAssignment == Assignment("devils_advocate", "codex", "subprocess")

\* Completed verdicts: one of each decision, at confidence 0.5, 0.525 and
\* 0.7, and one at confidence 5.
ScoredVerdicts ==
    {completedVerdict(AnAssignment, JObject(JStr(p[1]), JNum(p[2]), JUndefined,
                                            JUndefined, JUndefined)) :
        p \in {<<"proceed", 500>>, <<"proceed_with_changes", 525>>,
               <<"block", 700>>, <<"proceed", 5000>>}}

\* The verdicts the catch block of invokeExternal returns.
FailedVerdicts ==
    {invokeExternalCatch(AnAssignment, [timeout_seconds |-> TimeoutDefault],
                         execFileError(o)) : o \in FailureOutcomes}

VerdictPool == ScoredVerdicts \cup FailedVerdicts

VerdictLists == UNION {[1..n -> VerdictPool] : n \in 0..MaxVerdicts}

InitConsensus ==
    /\ config = [available_agents |-> {"codex", "gemini"},
                 timeout_seconds |-> TimeoutDefault]
    /\ entry = "none"
    /\ assignments = <<>>
    /\ proc = <<>>
    /\ promise = <<>>
    /\ result = NoResult
    /\ pc = "idle"
    /\ mode = "none"
    /\ consensus = NoConsensus
    /\ files = {}
    /\ readable = {DIST, SRC}
    /\ templateCache = EmptyCache
    /\ reads = <<>>
    /\ settleOrder = <<>>
    /\ ServerAtRest

\* A caller hands computeConsensus a verdict list of its own.
ConsensusCall(lists) ==
    /\ pc = "idle"
    /\ \E vs \in lists :
        /\ result' = [NoResult EXCEPT !.verdicts = vs]
        /\ consensus' = computeConsensus(vs)
    /\ entry' = "merger"
    /\ pc' = "merged"
    /\ UNCHANGED <<config, assignments, proc, promise, mode, files,
                   readable, templateCache, reads, settleOrder>>
    /\ UNCHANGED server

NextConsensus == ConsensusCall(VerdictLists)

SpecConsensus == InitConsensus /\ [][NextConsensus]_vars

(***************************************************************************)
(* buildPrompt over review inputs whose texts hold placeholders and        *)
(* replacement patterns                                                    *)
(***************************************************************************)
TaskTexts ==
    {<<"fix login">>, <<MATCHED>>, <<DOLLARS>>, <<PH_CHANGES>>, <<"cost in ", MATCHED>>,
     <<PH_CONTEXT, " is empty">>}

ChangeTexts == {<<"diff">>, <<MATCHED>>, <<PH_FILES>>}

FileLists == {<< <<"a.ts">> >>, << <<"a.ts">>, <<"b.ts">> >>, << <<MATCHED, ".ts">> >>}

\* context_files is optional.
ContextLists == {JUndefined, JArray(<<>>), JArray(<< <<"c.ts">> >>)}

ReviewInputs ==
    [task_description : TaskTexts, proposed_changes : ChangeTexts,
     affected_files : FileLists, context_files : ContextLists]

Templates ==
    {TemplateFile(DIST, r) : r \in Roles} \cup {getFallbackPrompt(r) : r \in Roles}

\* A caller hands buildPrompt a role and a review input; loadTemplate gives
\* the role's prompt file or the inline prompt.
BuildPromptCall ==
    /\ pc = "idle"
    /\ \E in \in ReviewInputs, content \in Templates :
          result' = [status |-> "built", verdicts |-> <<>>, subagent_prompts |-> <<>>,
                     input |-> in, template |-> content,
                     prompt |-> buildPromptText(templateText(content), in)]
    /\ entry' = "builder"
    /\ pc' = "done"
    /\ UNCHANGED <<config, assignments, proc, promise, mode, consensus, files,
                   readable, templateCache, reads, settleOrder>>
    /\ UNCHANGED server

NextBuildPrompt == BuildPromptCall

SpecBuildPrompt == InitConsensus /\ [][NextBuildPrompt]_vars

(***************************************************************************)
(* computeConsensus over verdicts that carry findings                      *)
(***************************************************************************)
Findings(critical_issues, structural_issues, recommendations, phasing_suggestion) ==
    [JObject(JUndefined, JUndefined, JUndefined, critical_issues, recommendations)
        EXCEPT !.structural_issues = structural_issues,
               !.phasing_suggestion = phasing_suggestion]

\* Entries of findings lists: two strings, an object whose title is the
\* first string, an object with a description only, a phase with a scope
\* only, and a phase with a title.
Dup == JStr("dup")

Other == JStr("other")

Titled == Entry(JStr("dup"), JStr("text"), JUndefined, JUndefined)

Described == Entry(JUndefined, JStr("desc"), JUndefined, JUndefined)

Scoped == Entry(JUndefined, JUndefined, JNum(1000), JStr("core"))

Phased == Entry(JStr("dup"), JUndefined, JNum(2000), JUndefined)

\* Completed verdicts with findings in every known field, with a field that
\* is no list, and with a payload that is no object; a verdict of status
\* timeout that a caller built with findings; a verdict of the catch block.
FindingsVerdicts ==
    {completedVerdict(AnAssignment,
         Findings(JArray(<<Dup, Described>>), JArray(<<Other, Titled>>),
                  JArray(<<Other, Titled>>), JArray(<<Other, Scoped>>))),
     completedVerdict(AnAssignment,
         Findings(JArray(<<Titled, Other, JNum(7000)>>), JUndefined,
                  JStr("none"), JArray(<<Phased, JNull>>))),
     completedVerdict(AnAssignment, JArray(<<Dup>>)),
     [completedVerdict(AnAssignment,
          Findings(JArray(<<JStr("late"), Dup>>), JUndefined,
                   JArray(<<Scoped>>), JUndefined))
        EXCEPT !.status = "timeout"],
     invokeExternalCatch(AnAssignment, [timeout_seconds |-> TimeoutDefault],
                         execFileError(Outcome("nonzero", <<>>)))}

FindingsLists == UNION {[1..n -> FindingsVerdicts] : n \in 0..MaxVerdicts}

NextFindings == ConsensusCall(FindingsLists)

SpecFindings == InitConsensus /\ [][NextFindings]_vars

(***************************************************************************)
(* Configuration (config/loader.ts).  An optional field is undefined or    *)
(* holds a value; .tenth-man/config.json is absent, malformed or holds a   *)
(* partial configuration.                                                  *)
(***************************************************************************)
Some(x) == [t |-> "value", v |-> x]

Partial(agents, timeout, patterns, dmode) ==
    [available_agents |-> agents, timeout_seconds |-> timeout,
     auto_trigger_patterns |-> patterns, default_mode |-> dmode]

\* No field given: {} or an absent userOverrides.
NoOverrides == Partial(JUndefined, JUndefined, JUndefined, JUndefined)

Malformed == [t |-> "malformed"]

JsonFile(v) == [t |-> "json", v |-> v]

DefaultPatterns == <<"**/auth/**", "**/migrations/**", "**/*.schema.*">>

\* loadRepoConfig: the content of the file, {} when it is absent or does not
\* parse.
loadRepoConfig(file) == IF file.t = "json" THEN file.v ELSE NoOverrides

Range(seq) == {seq[i] : i \in DOMAIN seq}

\* A slip in the order of the sources: the persisted value wins over the
\* call-time override.
buildRuntimeConfigPersistedFirst(userOverrides, repoConfig, det) ==
    LET agents == Coalesce(repoConfig.available_agents, userOverrides.available_agents)
    IN  [available_agents |-> IF agents.t = "value" THEN Range(agents.v) ELSE det,
         timeout_seconds |->
            Coalesce(Coalesce(repoConfig.timeout_seconds, userOverrides.timeout_seconds),
                     Some(TimeoutDefault)).v,
         auto_trigger_patterns |->
            Coalesce(Coalesce(repoConfig.auto_trigger_patterns,
                              userOverrides.auto_trigger_patterns),
                     Some(DefaultPatterns)).v,
         default_mode |->
            Coalesce(Coalesce(repoConfig.default_mode, userOverrides.default_mode),
                     Some("standard")).v]

\* buildRuntimeConfig once loadRepoConfig gave repoConfig and detectAgents
\* gave det: user overrides ?? repo config ?? default or detection.
buildRuntimeConfig(userOverrides, repoConfig, det) ==
    LET agents == Coalesce(userOverrides.available_agents, repoConfig.available_agents)
    IN  [available_agents |-> IF agents.t = "value" THEN Range(agents.v) ELSE det,
         timeout_seconds |->
            Coalesce(Coalesce(userOverrides.timeout_seconds, repoConfig.timeout_seconds),
                     Some(TimeoutDefault)).v,
         auto_trigger_patterns |->
            Coalesce(Coalesce(userOverrides.auto_trigger_patterns,
                              repoConfig.auto_trigger_patterns),
                     Some(DefaultPatterns)).v,
         default_mode |->
            Coalesce(Coalesce(userOverrides.default_mode, repoConfig.default_mode),
                     Some("standard")).v]

\* tenth_man_configure: const merged = { ...existing }, with every override
\* that is given.
mergedConfig(existing, overrides) ==
    [f \in DOMAIN existing |-> IF overrides[f].t # "undefined" THEN overrides[f]
                                ELSE existing[f]]

(***************************************************************************)
(* buildRuntimeConfig over every combination of call-time, persisted and   *)
(* detected values                                                         *)
(***************************************************************************)
AgentLists == {JUndefined, Some(<<>>), Some(<<"codex">>), Some(<<"gemini", "codex">>)}

Partials ==
    {Partial(a, t, p, m) :
        a \in AgentLists,
        t \in {JUndefined, Some(TimeoutMin), Some(240)},
        p \in {JUndefined, Some(<<"**/auth/**">>)},
        m \in {JUndefined, Some("auto"), Some("standard")}}

ConfigFiles == {NoFile, Malformed} \cup {JsonFile(v) : v \in Partials}

Detections == SUBSET {"codex", "gemini"}

\* A caller hands buildRuntimeConfig its overrides, in a repository with some
\* config file and some CLIs installed.
BuildConfigCall ==
    /\ pc = "idle"
    /\ \E overrides \in Partials, file \in ConfigFiles, det \in Detections :
        /\ persisted' = file
        /\ detected' = det
        /\ requests' = <<[tool |-> "buildRuntimeConfig", args |-> overrides]>>
        /\ runtimeConfig' = buildRuntimeConfig(overrides, loadRepoConfig(file), det)
    /\ entry' = "loader"
    /\ pc' = "done"
    /\ UNCHANGED <<config, assignments, proc, promise, result, mode, consensus, files,
                   readable, templateCache, reads, settleOrder>>
    /\ UNCHANGED <<active, history, index>>

NextBuildConfig == BuildConfigCall

SpecBuildConfig == InitConsensus /\ [][NextBuildConfig]_vars

(***************************************************************************)
(* The server (index.ts): requests of the MCP client, each run by its      *)
(* handler up to an await and resumed when what it awaits is there.  A     *)
(* request is known by its position in requests, which is also the audit   *)
(* id its review generates; a file is known by the review it was written   *)
(* for.                                                                    *)
(***************************************************************************)
MaxRequests == 2

\* server.tool(...): the tools the server registers.
RegisteredTools == {"tenth_man_review", "tenth_man_configure", "tenth_man_history"}

\* The variables of one executeAgents call, which no request touches.
callVars == <<config, entry, assignments, proc, promise, result, pc, mode, consensus,
              readable, settleOrder>>

File(audit) == [t |-> "file", audit |-> audit]

NoLocal == [t |-> "none"]

NoResponse == [status |-> "pending"]

Request(tool, args, at, local, response) ==
    [tool |-> tool, args |-> args, pc |-> at, local |-> local, response |-> response]

\* Request r is now req: a request that arrives is put last.
Put(reqs, r, req) ==
    IF r \in DOMAIN reqs THEN [reqs EXCEPT ![r] = req] ELSE Append(reqs, req)

\* A slip in the mode: the configured default wins over the argument.
resolvedModeConfigFirst(args, cfg) ==
    Coalesce(Coalesce(Some(cfg.default_mode), args.mode), Some("standard")).v

\* const resolvedMode = args.mode ?? config.default_mode ?? 'standard'
resolvedMode(args, cfg) ==
    Coalesce(Coalesce(args.mode, Some(cfg.default_mode)), Some("standard")).v

\* How the process of a subprocess assignment can end in a review.
ReviewOutcomes ==
    {Outcome("exit0", <<LB, "v:block", COMMA, "c:0.9", RB>>), Outcome("timeout", <<>>)}

\* Object.fromEntries(verdicts.map((v) => [v.role, entry(v)])): one entry per
\* role, the last verdict of a role winning.
agentVerdicts(verdicts, withModel) ==
    [r \in {verdicts[i].role : i \in DOMAIN verdicts} |->
        LET v == verdicts[Max({i \in DOMAIN verdicts : verdicts[i].role = r})]
        IN  IF withModel
            THEN [verdict |-> v.verdict, confidence |-> v.confidence, engine |-> v.engine,
                  model |-> v.model, status |-> v.status]
            ELSE [verdict |-> v.verdict, confidence |-> v.confidence, engine |-> v.engine,
                  status |-> v.status]]

\* ...(subagent_prompts.length > 0 ? { pending_subagents: ... } : {})
pendingSubagents(subagent_prompts) ==
    IF Len(subagent_prompts) > 0
    THEN JArray([i \in DOMAIN subagent_prompts |->
                    [role |-> subagent_prompts[i].role, model |-> subagent_prompts[i].model,
                     tools |-> subagent_prompts[i].tools,
                     prompt |-> subagent_prompts[i].prompt]])
    ELSE JUndefined

\* The response of tenth_man_review; the fields of times and of text meant
\* for the host are not modelled.
reviewResponse(rmode, audit, cons, verdicts, subagent_prompts) ==
    [status |-> IF rmode = "standard" THEN "review_complete" ELSE "auto_approved",
     audit_id |-> audit,
     review_file |-> IF rmode = "standard" THEN Some(REVIEW_MD) ELSE JUndefined,
     summary |-> [verdict |-> cons.verdict, confidence |-> cons.confidence,
                  critical_issues |-> cons.critical_issues,
                  recommendations |-> cons.recommendations],
     agent_verdicts |-> agentVerdicts(verdicts, rmode = "standard"),
     pending_subagents |-> pendingSubagents(subagent_prompts)]

\* The directory archiveToHistory makes for a review: the active review and
\* plan files, if they exist, copied in, and outcome.json.
historyDir(act, audit, rmode, cons, verdicts) ==
    [audit |-> audit, review |-> act.review, plan |-> act.plan,
     outcome |-> [audit_id |-> audit, verdict |-> cons.verdict,
                  confidence |-> cons.confidence,
                  critical_issues |-> cons.critical_issues,
                  recommendations |-> cons.recommendations,
                  agents_used |-> [i \in DOMAIN verdicts |->
                      [role |-> verdicts[i].role, engine |-> verdicts[i].engine,
                       model |-> verdicts[i].model, verdict |-> verdicts[i].verdict,
                       status |-> verdicts[i].status]],
                  mode |-> rmode]]

\* The entry updateIndex puts first in index.json.
indexEntry(audit, rmode, cons, verdicts) ==
    [audit_id |-> audit, verdict |-> cons.verdict,
     agents_used |-> [i \in DOMAIN verdicts |->
         [role |-> verdicts[i].role, engine |-> verdicts[i].engine,
          model |-> verdicts[i].model]],
     mode |-> rmode]

\* readHistory without filters: the first lastN entries of index.json.
readHistory(idx, lastN) == SubSeq(idx, 1, IF lastN < Len(idx) THEN lastN ELSE Len(idx))

\* tenth_man_review from the return of executeAgents' await to the response:
\* the instructions of the delegated roles, the consensus, and the files of
\* the resolved mode.
ReviewReturns(r, req, promises, cache, readsSoFar) ==
    \E local \in {req.local} :
    \E res \in {executeAgentsReturn(local.assignments, promises, input, cache, readable)} :
    \E built \in {subagentInstructions(claudeAssignmentsOf(local.assignments), input,
                                       cache, readable)} :
    \E cons \in {computeConsensus(res.verdicts)} :
        /\ templateCache' = built.cache
        /\ reads' = readsSoFar \o built.reads
        /\ requests' = Put(requests, r,
              [req EXCEPT !.pc = "returned",
                          !.local = [local EXCEPT !.verdicts = res.verdicts],
                          !.response = reviewResponse(local.mode, r, cons, res.verdicts,
                                                      res.subagent_prompts)])
        /\ IF local.mode = "standard"
           THEN /\ active' = [active EXCEPT !.review = File(r)]
                /\ UNCHANGED <<history, index>>
           ELSE /\ history' = Append(history,
                                     historyDir(active, r, local.mode, cons, res.verdicts))
                /\ active' = [review |-> NoFile, plan |-> NoFile]
                /\ index' = <<indexEntry(r, local.mode, cons, res.verdicts)>> \o index

\* tenth_man_review once getConfig gave cfg, up to the await of executeAgents,
\* and on to the response when there is no process to wait for.
ReviewRuns(r, req, cfg) ==
    \E local \in {[config |-> cfg, mode |-> resolvedMode(req.args, cfg),
                   assignments |-> resolveAgents(cfg), verdicts |-> <<>>]} :
    \E prompts \in {invokeExternalPrompts(externalAssignmentsOf(local.assignments), input,
                                          templateCache, readable)} :
    \E running \in {[req EXCEPT !.pc = "awaiting_agents", !.local = local]} :
        /\ files' = files \cup {GITIGNORE, CLAUDE_MD}
        /\ IF externalAssignmentsOf(local.assignments) = <<>>
           THEN ReviewReturns(r, running, <<>>, prompts.cache, reads \o prompts.reads)
           ELSE /\ requests' = Put(requests, r, running)
                /\ templateCache' = prompts.cache
                /\ reads' = reads \o prompts.reads
                /\ UNCHANGED <<active, history, index>>

\* tenth_man_history once getConfig gave its configuration.
HistoryRuns(r, req) ==
    /\ requests' = Put(requests, r,
          [req EXCEPT !.pc = "returned",
                      !.response = [status |-> "history",
                                    audits |-> readHistory(index, req.args.last_n)]])
    /\ UNCHANGED <<files, templateCache, reads, active, history, index>>

\* The handler of a tool that calls getConfig, from the return of getConfig.
HandlerRuns(r, req, cfg) ==
    IF req.tool = "tenth_man_review" THEN ReviewRuns(r, req, cfg) ELSE HistoryRuns(r, req)

\* A request for a tool that calls getConfig arrives.  With runtimeConfig set
\* the handler runs on; with runtimeConfig null, buildRuntimeConfig reads the
\* config file and awaits detectAgents.
ToolCall(tool, argsOf) ==
    /\ Len(requests) < MaxRequests
    /\ \E args \in argsOf :
        LET r == Len(requests) + 1
            req == Request(tool, args, "received", NoLocal, NoResponse)
        IN  IF runtimeConfig # Null
            THEN /\ HandlerRuns(r, req, runtimeConfig)
                 /\ UNCHANGED runtimeConfig
            ELSE /\ requests' = Append(requests,
                        [req EXCEPT !.pc = "awaiting_config",
                                    !.local = [repoConfig |-> loadRepoConfig(persisted)]])
                 /\ UNCHANGED <<runtimeConfig, files, templateCache, reads, active,
                                history, index>>
    /\ UNCHANGED <<persisted, detected>>
    /\ UNCHANGED callVars

\* z.number().min(1).max(50).default(5)
DefaultLastN == 5

ReviewArgs == {[mode |-> m] : m \in {JUndefined, Some("standard"), Some("auto")}}

HistoryArgs == {[last_n |-> DefaultLastN]}

ConfigureArgs ==
    {Partial(JUndefined, Some(TimeoutMin), JUndefined, Some("auto")),
     Partial(Some(<<>>), JUndefined, JUndefined, JUndefined)}

\* tenth_man_review is called.
ReviewCall == ToolCall("tenth_man_review", ReviewArgs)

\* tenth_man_history is called.
HistoryCall == ToolCall("tenth_man_history", HistoryArgs)

\* detectAgents of a getConfig that found runtimeConfig null is done:
\* runtimeConfig = await buildRuntimeConfig(repoRoot), and the handler runs on
\* with it.
GetConfigResumes(r) ==
    /\ requests[r].pc = "awaiting_config"
    /\ requests[r].tool # "tenth_man_configure"
    /\ LET cfg == buildRuntimeConfig(NoOverrides, requests[r].local.repoConfig, detected)
       IN  /\ runtimeConfig' = cfg
           /\ HandlerRuns(r, requests[r], cfg)
    /\ UNCHANGED <<persisted, detected>>
    /\ UNCHANGED callVars

\* The processes a review waits for have all ended, each in some way.
AgentsSettle(r) ==
    /\ requests[r].pc = "awaiting_agents"
    /\ LET local == requests[r].local
           external == externalAssignmentsOf(local.assignments)
       IN  \E outcomes \in [1..Len(external) -> ReviewOutcomes] :
              ReviewReturns(r, requests[r],
                            [i \in 1..Len(external) |->
                                invokeExternalSettle(external[i], local.config,
                                                     outcomes[i])],
                            templateCache, reads)
    /\ UNCHANGED <<runtimeConfig, persisted, detected, files>>
    /\ UNCHANGED callVars

\* tenth_man_configure is called: the overrides are merged into
\* .tenth-man/config.json, and buildRuntimeConfig(repoRoot, overrides) reads
\* the file back and awaits detectAgents.
ConfigureCall ==
    /\ Len(requests) < MaxRequests
    /\ \E args \in ConfigureArgs :
        LET merged == mergedConfig(loadRepoConfig(persisted), args)
        IN  /\ persisted' = JsonFile(merged)
            /\ requests' = Append(requests,
                  Request("tenth_man_configure", args, "awaiting_config",
                          [repoConfig |-> loadRepoConfig(JsonFile(merged))], NoResponse))
    /\ files' = files \cup {GITIGNORE}
    /\ UNCHANGED <<runtimeConfig, detected, templateCache, reads, active, history, index>>
    /\ UNCHANGED callVars

\* detectAgents of a configure call is done: runtimeConfig is set and the
\* call returns it.
ConfigureResumes(r) ==
    /\ requests[r].pc = "awaiting_config"
    /\ requests[r].tool = "tenth_man_configure"
    /\ LET cfg == buildRuntimeConfig(requests[r].args, requests[r].local.repoConfig,
                                     detected)
       IN  /\ runtimeConfig' = cfg
           /\ requests' = [requests EXCEPT ![r] =
                 [@ EXCEPT !.pc = "returned",
                           !.response = [status |-> "configured", config |-> cfg]]]
    /\ UNCHANGED <<persisted, detected, files, templateCache, reads, active, history,
                   index>>
    /\ UNCHANGED callVars

\* The verdict of a delegated role, as the host would hand it back.
DelegatedVerdicts ==
    <<completedVerdict(Assignment("pragmatist", "claude", "subagent_prompt"),
                       JObject(JStr("proceed"), JNum(500), JUndefined, JUndefined,
                               JUndefined))>>

\* A tool the server does not register is called: the call fails and no
\* handler runs.
UnregisteredCall(tool, args) ==
    /\ tool \notin RegisteredTools
    /\ Len(requests) < MaxRequests
    /\ requests' = Append(requests,
          Request(tool, args, "returned", NoLocal,
                  [status |-> "error", error |-> "tool not found"]))
    /\ UNCHANGED <<runtimeConfig, persisted, detected, files, templateCache, reads,
                   active, history, index>>
    /\ UNCHANGED callVars

\* The host, told by a standard review to write its plan, writes
\* .tenth-man/active/PLAN.md.
HostWritesPlan(r) ==
    /\ requests[r].tool = "tenth_man_review"
    /\ requests[r].pc = "returned"
    /\ requests[r].local.mode = "standard"
    /\ active.plan # File(r)
    /\ \A k \in DOMAIN history : history[k].plan # File(r)
    /\ active' = [active EXCEPT !.plan = File(r)]
    /\ UNCHANGED <<runtimeConfig, persisted, detected, requests, files, templateCache,
                   reads, history, index>>
    /\ UNCHANGED callVars

\* The server starts in a repository without a config file, with the codex
\* CLI installed, runtimeConfig null.
InitServer ==
    /\ config = [available_agents |-> {"codex", "gemini"},
                 timeout_seconds |-> TimeoutDefault]
    /\ entry = "none"
    /\ assignments = <<>>
    /\ proc = <<>>
    /\ promise = <<>>
    /\ result = NoResult
    /\ pc = "idle"
    /\ mode = "none"
    /\ consensus = NoConsensus
    /\ files = {}
    /\ readable = {DIST, SRC}
    /\ templateCache = EmptyCache
    /\ reads = <<>>
    /\ settleOrder = <<>>
    /\ runtimeConfig = Null
    /\ persisted = NoFile
    /\ detected = {"codex"}
    /\ requests = <<>>
    /\ active = [review |-> NoFile, plan |-> NoFile]
    /\ history = <<>>
    /\ index = <<>>

NextServer ==
    \/ ReviewCall
    \/ HistoryCall
    \/ ConfigureCall
    \/ UnregisteredCall("tenth_man_compile", [verdicts |-> DelegatedVerdicts])
    \/ \E r \in DOMAIN requests : GetConfigResumes(r)
    \/ \E r \in DOMAIN requests : ConfigureResumes(r)
    \/ \E r \in DOMAIN requests : AgentsSettle(r)
    \/ \E r \in DOMAIN requests : HostWritesPlan(r)

SpecServer == InitServer /\ [][NextServer]_vars

(***************************************************************************)
(* Properties of the resolver                                              *)
(***************************************************************************)
External == {"codex", "gemini"}

IndexOfRole(as, r) == {i \in DOMAIN as : as[i].role = r}

\* The engine the resolver gave role r.
EngineOf(r) == assignments[CHOOSE i \in IndexOfRole(assignments, r) : TRUE].engine

\* C1: whatever backends are available, resolveAgents returns exactly 3
\* assignments, one for each of the three roles, and when an external backend
\* is available devils_advocate runs as a subprocess of an external backend.
C1_ResolverCoversRoles ==
    entry = "resolver" =>
        /\ Len(assignments) = 3
        /\ \A i \in DOMAIN assignments : assignments[i].role \in Roles
        /\ \A r \in Roles : Cardinality(IndexOfRole(assignments, r)) = 1
        /\ (config.available_agents \cap External # {} =>
              \E i \in DOMAIN assignments :
                  /\ assignments[i].role = "devils_advocate"
                  /\ assignments[i].via = "subprocess"
                  /\ assignments[i].engine \in External)

C1_Witness ==
    /\ entry = "resolver"
    /\ config.available_agents = {"gemini"}
    /\ assignments[1].role = "devils_advocate"
    /\ assignments[1].engine = "gemini"

\* C2: the cascade. Both backends: codex, gemini, claude. One backend: that
\* backend for devils_advocate, claude for the other two. None: claude for all.
\* An assignment is a subprocess iff its engine is external, and an external
\* engine is always an available one.
C2_ResolverCascade ==
    entry = "resolver" =>
        LET av == config.available_agents
        IN  /\ av = {"codex", "gemini"} =>
                /\ EngineOf("devils_advocate") = "codex"
                /\ EngineOf("architecture_critic") = "gemini"
                /\ EngineOf("pragmatist") = "claude"
            /\ Cardinality(av) = 1 =>
                /\ EngineOf("devils_advocate") \in av
                /\ EngineOf("architecture_critic") = "claude"
                /\ EngineOf("pragmatist") = "claude"
            /\ av = {} => \A r \in Roles : EngineOf(r) = "claude"
            /\ \A i \in DOMAIN assignments :
                /\ assignments[i].via = "subprocess" <=> assignments[i].engine \in External
                /\ assignments[i].via = "subagent_prompt" <=> assignments[i].engine = "claude"
                /\ assignments[i].engine \in External => assignments[i].engine \in av
                /\ assignments[i].model = MODELS[assignments[i].engine]

C2_Witness ==
    /\ entry = "resolver"
    /\ pc = "done"
    /\ config.available_agents = {"codex", "gemini"}
    /\ EngineOf("architecture_critic") = "gemini"

(***************************************************************************)
(* Properties of executeAgents                                             *)
(***************************************************************************)
Subprocess == {i \in DOMAIN assignments : assignments[i].via = "subprocess"}

Delegated == {i \in DOMAIN assignments : assignments[i].via = "subagent_prompt"}

AllSettled == \A i \in DOMAIN promise : promise[i].state # "pending"

\* C3: executeAgents resolves, whatever each invocation did, with one verdict
\* per subprocess assignment and one instruction per delegated assignment, so
\* that each role of the list is in exactly one of the two lists, once.
C3_OneResultPerAssignment ==
    /\ (pc = "awaiting" /\ AllSettled) => ENABLED Join
    /\ pc = "done" =>
        /\ result.status = "resolved"
        /\ Len(result.verdicts) = Cardinality(Subprocess)
        /\ Len(result.subagent_prompts) = Cardinality(Delegated)
        /\ \A i \in DOMAIN assignments :
            LET inVerdicts == IndexOfRole(result.verdicts, assignments[i].role)
                inPrompts == IndexOfRole(result.subagent_prompts, assignments[i].role)
            IN  /\ Cardinality(inVerdicts) + Cardinality(inPrompts) = 1
                /\ i \in Subprocess <=> inVerdicts # {}
                /\ i \in Delegated <=> inPrompts # {}

C3_Witness ==
    /\ pc = "done"
    /\ result.status = "resolved"
    /\ \E i \in DOMAIN promise : promise[i].state = "rejected"
    /\ \E i \in DOMAIN proc : proc[i].kind = "timeout"
    /\ Len(result.subagent_prompts) = 1

\* C4: an invocation is settled by its own process alone. While its process
\* runs it stays pending, whatever its siblings did; once its process ended,
\* its verdict is the one its own assignment, the config and its own outcome
\* give, and it carries its own role, engine and model.
C4_InvocationsIsolated ==
    \A i \in DOMAIN promise :
        /\ proc[i] = Running => promise[i] = Pending
        /\ proc[i] = NotSpawned => promise[i].state = "rejected"
        /\ proc[i].kind \in OutcomeKinds =>
            /\ promise[i] = invokeExternalSettle(ext[i], config, proc[i])
            /\ promise[i].state = "fulfilled"
            /\ promise[i].value.role = ext[i].role
            /\ promise[i].value.engine = ext[i].engine
            /\ promise[i].value.model = ext[i].model
            /\ promise[i].value.status = "completed" => proc[i].kind = "exit0"
            /\ pc = "done" => result.verdicts[i] = promise[i].value

C4_Witness ==
    \E i, j \in DOMAIN promise :
        /\ i < j
        /\ proc[i].kind = "timeout"
        /\ proc[j].kind = "exit0"
        /\ promise[j].state = "fulfilled"
        /\ promise[j].value.status = "completed"
        /\ promise[j].value.verdict = "block"

\* C5: an invocation whose process was killed on expiry of the timeout gets a
\* verdict of status timeout, decision proceed_with_changes, confidence 0.3,
\* raw_output null and an error text that names the timeout.
C5_TimeoutVerdict ==
    \A i \in DOMAIN proc :
        proc[i].kind = "timeout" =>
            /\ promise[i].state = "fulfilled"
            /\ promise[i].value.status = "timeout"
            /\ promise[i].value.verdict = "proceed_with_changes"
            /\ promise[i].value.confidence = 300
            /\ promise[i].value.raw_output = JNull
            /\ promise[i].value.error =
                  [text |-> "Agent timed out after", seconds |-> config.timeout_seconds]
            /\ pc = "done" => result.verdicts[i].status = "timeout"

C5_Witness ==
    /\ pc = "done"
    /\ config.timeout_seconds = TimeoutMin
    /\ \E i \in DOMAIN proc :
        proc[i].kind = "timeout" /\ result.verdicts[i].status = "timeout"

\* C6: a process that failed without the timeout expiring (nonzero exit, spawn
\* or I/O error, output over the buffer limit) gets a verdict of status error,
\* decision proceed_with_changes, confidence 0.3 and the failure's message as
\* error text; status timeout is given only to a process the timeout killed.
C6_FailureVerdict ==
    /\ \A i \in DOMAIN proc :
        /\ proc[i].kind \in {"nonzero", "spawn_error", "maxbuffer"} =>
            /\ promise[i].state = "fulfilled"
            /\ promise[i].value.status = "error"
            /\ promise[i].value.verdict = "proceed_with_changes"
            /\ promise[i].value.confidence = 300
            /\ promise[i].value.error.text = "Agent failed: "
            /\ promise[i].value.error.message = execFileError(proc[i]).message
        /\ (promise[i].state = "fulfilled" /\ promise[i].value.status = "timeout")
              => proc[i].kind = "timeout"
    /\ \A i \in DOMAIN result.verdicts :
        result.verdicts[i].status = "timeout" => proc[i].kind = "timeout"

C6_Witness ==
    /\ pc = "done"
    /\ \E i \in DOMAIN proc :
        proc[i].kind = "maxbuffer" /\ result.verdicts[i].status = "error"

(***************************************************************************)
(* Properties of a successful invocation and of the normalizer             *)
(***************************************************************************)
\* C7: a process that exited successfully gets a verdict of status completed,
\* whose decision is the payload's verdict when valid (proceed_with_changes
\* otherwise), whose confidence is the payload's confidence when a number
\* (0.5 otherwise), and whose raw_output is the normalized payload.
C7_SuccessVerdict ==
    \A i \in DOMAIN proc :
        proc[i].kind = "exit0" =>
            LET parsed == parseAgentOutput(proc[i].stdout, ext[i].role)
                v == promise[i].value
            IN  /\ v.status = "completed"
                /\ v.raw_output = parsed
                /\ v.verdict = IF isVerdict(Prop(parsed, "verdict"))
                               THEN Prop(parsed, "verdict").s
                               ELSE "proceed_with_changes"
                /\ v.confidence = IF Prop(parsed, "confidence").t = "number"
                                  THEN Prop(parsed, "confidence").n
                                  ELSE 500

\* C8: the confidence of every verdict of the invoker is in [0,1].
C8_ConfidenceInRange ==
    \A i \in DOMAIN promise :
        promise[i].state = "fulfilled" =>
            promise[i].value.confidence >= 0 /\ promise[i].value.confidence <= 1000

\* C9: whatever a successfully exited process printed, its verdict is completed
\* with a decision and a confidence; no output gives an errored verdict.
C9_NormalizerNeverFails ==
    \A i \in DOMAIN proc :
        proc[i].kind = "exit0" =>
            /\ promise[i].state = "fulfilled"
            /\ promise[i].value.status # "error"
            /\ promise[i].value.status = "completed"
            /\ promise[i].value.verdict \in Verdict
            /\ promise[i].value.confidence \in Int
            /\ promise[i].value.raw_output # JNull

\* Braces open at position k of s, counted from position i.
Depth(s, i, k) ==
    Cardinality({x \in i..k : s[x] = LB}) - Cardinality({x \in i..k : s[x] = RB})

Balanced(s, i, j) ==
    /\ s[i] = LB
    /\ s[j] = RB
    /\ Depth(s, i, j) = 0
    /\ \A k \in i..(j - 1) : Depth(s, i, k) > 0

FirstOpen(s) == Min({i \in 1..Len(s) : s[i] = LB})

\* Where the brace opened first in s is closed again.
Closings(s) ==
    IF \A i \in 1..Len(s) : s[i] # LB THEN {}
    ELSE {j \in 1..Len(s) : Balanced(s, FirstOpen(s), j)}

\* The first balanced brace-delimited substring of s: from its first opening
\* brace to the brace that closes it.
FirstBalanced(s) == SubSeq(s, FirstOpen(s), Min(Closings(s)))

\* The three stages as stated: the whole cleaned text, else the first balanced
\* brace-delimited substring, else the fallback payload.
StagedPayload(output, role) ==
    LET cleaned == cleanOutput(output)
        whole == JSONparse(cleaned)
        part == IF Closings(cleaned) = {} THEN SyntaxError
                ELSE JSONparse(FirstBalanced(cleaned))
    IN  IF whole # SyntaxError THEN whole
        ELSE IF part # SyntaxError THEN part
        ELSE fallbackPayload(output, role)

\* C10: the payload of a completed verdict is the result of the three stages
\* in order; an object followed by prose with further braces gives that object.
C10_StagesInOrder ==
    \A i \in DOMAIN proc :
        (proc[i].kind = "exit0" /\ promise[i].value.status = "completed") =>
            promise[i].value.raw_output = StagedPayload(proc[i].stdout, ext[i].role)

(***************************************************************************)
(* Defaults and the fallback payload                                       *)
(***************************************************************************)
\* Neither the cleaned text nor its part from the first opening to the last
\* closing brace is JSON.
Unparseable(output) ==
    /\ JSONparse(cleanOutput(output)) = SyntaxError
    /\ \/ jsonMatch(cleanOutput(output)) = NoMatch
       \/ JSONparse(jsonMatch(cleanOutput(output))) = SyntaxError

\* The note is the first SliceLen characters of the text, all of it when it
\* is shorter.
Embeds(note, output) ==
    /\ note.whole = SubSeq(output, 1, Len(note.whole))
    /\ note.part >= 0
    /\ Length(note.whole) + note.part =
          IF Length(output) < SliceLen THEN Length(output) ELSE SliceLen
    /\ Len(note.whole) < Len(output) => note.part < Width(output[Len(note.whole) + 1])

Exited == {i \in DOMAIN proc : proc[i].kind = "exit0"}

\* C11 as amended: a payload that lacks a decision gives the decision
\* proceed_with_changes and one that lacks a numeric confidence gives 0.5; the
\* payload for unparseable output gives proceed_with_changes too, but
\* confidence 0.4, with the first 500 characters of the text and empty issue
\* and recommendation lists.
C11_DefaultsAndFallback ==
    \A i \in Exited :
        LET v == promise[i].value
        IN  /\ (v.status = "completed" /\ ~isVerdict(Prop(v.raw_output, "verdict")))
                  => v.verdict = "proceed_with_changes"
            /\ (v.status = "completed" /\ Prop(v.raw_output, "confidence").t # "number")
                  => v.confidence = DefaultConfidence
            /\ Unparseable(proc[i].stdout) =>
                  /\ v.status = "completed"
                  /\ v.verdict = "proceed_with_changes"
                  /\ v.confidence = FallbackConfidence
                  /\ v.raw_output.verdict = JStr("proceed_with_changes")
                  /\ v.raw_output.confidence = JNum(FallbackConfidence)
                  /\ Embeds(v.raw_output.reasoning.raw, proc[i].stdout)
                  /\ v.raw_output.critical_issues = JArray(<<>>)
                  /\ v.raw_output.recommendations = JArray(<<>>)

\* Unparseable output of more than 500 characters, cut within a token.
C11_Witness ==
    \E i \in Exited :
        /\ Unparseable(proc[i].stdout)
        /\ Length(proc[i].stdout) > SliceLen
        /\ promise[i].value.raw_output.reasoning.raw.part > 0
        /\ promise[i].value.confidence = FallbackConfidence

\* C11: the defaults for a missing field and the values of the fallback
\* payload are the same: proceed_with_changes and 0.5 in both cases.
C11_SameDefaults ==
    \A i \in Exited :
        LET v == promise[i].value
        IN  (Unparseable(proc[i].stdout)
                \/ (v.status = "completed"
                      /\ Prop(v.raw_output, "confidence").t # "number"))
            => /\ v.verdict = "proceed_with_changes" \/ isVerdict(Prop(v.raw_output, "verdict"))
               /\ v.confidence = DefaultConfidence

(***************************************************************************)
(* Instructions for delegated assignments                                  *)
(***************************************************************************)
claude == claudeAssignmentsOf(assignments)

\* The reads loadTemplate makes for a role that is not in the cache.
TemplateReads(role) ==
    IF DIST \in readable THEN <<ReadFile(DIST, role)>>
    ELSE <<ReadFile(DIST, role), ReadFile(SRC, role)>>

\* The reads of building the instructions of the delegated assignments in
\* order, from the cache as it is.
InstructionReads ==
    Concat([k \in DOMAIN claude |->
        IF templateCache[claude[k].role] # NoTemplate THEN <<>>
        ELSE TemplateReads(claude[k].role)])

\* The template of a role: the cached one, else the first readable file,
\* else the inline prompt.
TemplateOf(role) ==
    IF templateCache[role] # NoTemplate THEN templateCache[role]
    ELSE IF DIST \in readable THEN TemplateFile(DIST, role)
    ELSE IF SRC \in readable THEN TemplateFile(SRC, role)
    ELSE getFallbackPrompt(role)

\* C12 as amended: the step that builds the pending instructions gives, for
\* every delegated assignment in order, its role, the tools Read, Glob and
\* Grep, and the role prompt without the JSON-only suffix; it reads the
\* prompt files of the roles that are not in the cache (one or two reads
\* each), reads nothing for a cached role, writes no file and always
\* returns.
C12_InstructionBuilt ==
    [][(pc = "awaiting" /\ pc' = "done") =>
          /\ Len(result'.subagent_prompts) = Len(claude)
          /\ \A k \in DOMAIN claude :
                /\ result'.subagent_prompts[k].role = claude[k].role
                /\ result'.subagent_prompts[k].tools = <<"Read", "Glob", "Grep">>
                /\ result'.subagent_prompts[k].prompt =
                      [template |-> TemplateOf(claude[k].role), input |-> input,
                       json_only |-> FALSE]
          /\ reads' = reads \o InstructionReads
          /\ files' = files]_vars

\* Three instructions built with one role in the cache and the prompt files
\* of the others read.
C12_Witness ==
    /\ pc = "done"
    /\ ext = <<>>
    /\ Len(result.subagent_prompts) = 3
    /\ Len(reads) = 4
    /\ result.subagent_prompts[1].prompt.template = TemplateFile(DIST, "devils_advocate")
    /\ result.subagent_prompts[2].prompt.template = TemplateFile(SRC, "architecture_critic")

\* C12: building the pending instructions performs no I/O.
C12_NoIO == [][(pc = "awaiting" /\ pc' = "done") => reads' = reads]_vars

(***************************************************************************)
(* Consensus                                                               *)
(***************************************************************************)
Merged == pc \in {"merged", "reported"}

CompletedAt == {i \in DOMAIN result.verdicts : result.verdicts[i].status = "completed"}

SayAt(d) == {i \in CompletedAt : result.verdicts[i].verdict = d}

\* C13: when no verdict of the input is completed (the empty list included)
\* the consensus is the degraded one: proceed_with_changes, confidence 0.2
\* and exactly one synthetic issue naming the failure of all agents; so
\* proceed is returned only when some verdict is completed.
C13_DegradedConsensus ==
    Merged =>
        /\ CompletedAt = {} =>
              /\ consensus.verdict = "proceed_with_changes"
              /\ consensus.confidence = DegradedConfidence
              /\ consensus.critical_issues = <<AllFailedIssue>>
        /\ consensus.verdict = "proceed" => CompletedAt # {}

C13_Witness ==
    /\ Merged
    /\ Len(result.verdicts) = 2
    /\ CompletedAt = {}
    /\ consensus.confidence = DegradedConfidence

C15_WeightedMean ==
    (Merged /\ CompletedAt # {}) =>
        consensus.confidence = weightedConfidence(result.verdicts)

\* C16: the consensus confidence lies in [0, 1] (that it has two decimals
\* is how the model keeps it).
C16_ConfidenceInRange ==
    Merged => consensus.confidence \in 0..1000

\* The input of the call in another order.
Reordered(p) == [i \in DOMAIN result.verdicts |-> result.verdicts[p[i]]]

\* C18: the decision and the confidence of the consensus are the same for
\* every order of the verdict list.
C18_OrderIndependent ==
    Merged =>
        \A p \in Permutations(DOMAIN result.verdicts) :
            /\ computeConsensus(Reordered(p)).verdict = consensus.verdict
            /\ computeConsensus(Reordered(p)).confidence = consensus.confidence

(***************************************************************************)
(* Issue and recommendation lists                                          *)
(***************************************************************************)
PlainOrTitle(e) ==
    IF e.t = "string" THEN e.s
    ELSE IF e.title.t # "undefined" THEN String(e.title)
    ELSE IF e.description.t # "undefined" THEN String(e.description)
    ELSE String(JSONstringify(e))

PhaseLine(e) ==
    "Phase " \o String(e.phase) \o ": "
        \o String(IF e.title.t # "undefined" THEN e.title ELSE e.scope)

\* The strings of the entries of items whose kind is in kinds, in order; an
\* entry is read as a phase or as a plain finding.
TextsOf(items, kinds, asPhase) ==
    LET taken == SelectSeq(items, LAMBDA e : e.t \in kinds)
    IN  [i \in DOMAIN taken |->
            IF asPhase THEN PhaseLine(taken[i]) ELSE PlainOrTitle(taken[i])]

\* The strings the entries of output.<field> stand for.
FieldTexts(v, field, kinds, asPhase) ==
    IF v.raw_output.t = "object" /\ v.raw_output[field].t = "array"
    THEN TextsOf(v.raw_output[field].items, kinds, asPhase)
    ELSE <<>>

\* What verdict v adds to the issue list and to the recommendation list.
IssuesOf(v) ==
    FieldTexts(v, "critical_issues", {"string", "object"}, FALSE)
        \o FieldTexts(v, "structural_issues", {"object"}, FALSE)

RecommendationsOf(v) ==
    FieldTexts(v, "recommendations", {"string", "object"}, FALSE)
        \o FieldTexts(v, "phasing_suggestion", {"object"}, TRUE)

\* The same with every known field read for strings and for objects with a
\* title or a description.
ClaimedIssuesOf(v) ==
    FieldTexts(v, "critical_issues", {"string", "object"}, FALSE)
        \o FieldTexts(v, "structural_issues", {"string", "object"}, FALSE)

ClaimedRecommendationsOf(v) ==
    FieldTexts(v, "recommendations", {"string", "object"}, FALSE)
        \o FieldTexts(v, "phasing_suggestion", {"string", "object"}, FALSE)

\* list holds each string of the verdicts' contributions once, in the order
\* in which the strings first occur in them.
FirstOccurrences(list, all) ==
    LET first(x) == Min({i \in DOMAIN all : all[i] = x})
    IN  /\ {list[i] : i \in DOMAIN list} = {all[i] : i \in DOMAIN all}
        /\ \A i, j \in DOMAIN list : i < j => first(list[i]) < first(list[j])

\* C17 as amended: when some verdict is completed, the issue list and the
\* recommendation list hold, without repetition and in order of first
\* occurrence, the strings of every verdict with an object payload, completed
\* or not: strings and objects of critical_issues and recommendations,
\* objects only of structural_issues and phasing_suggestion, an object given
\* by its title, else its description, else its JSON text, and a phase by
\* "Phase <phase>: <title, else scope>".
C17_FindingsLists ==
    (Merged /\ CompletedAt # {}) =>
        /\ FirstOccurrences(consensus.critical_issues,
              Concat([i \in DOMAIN result.verdicts |-> IssuesOf(result.verdicts[i])]))
        /\ FirstOccurrences(consensus.recommendations,
              Concat([i \in DOMAIN result.verdicts |-> RecommendationsOf(result.verdicts[i])]))

\* A repeated string, a string in structural_issues and findings of a
\* verdict that is not completed.
C17_Witness ==
    /\ Merged
    /\ \E i, j \in DOMAIN result.verdicts :
        /\ result.verdicts[i].status = "completed"
        /\ FieldTexts(result.verdicts[i], "structural_issues", {"string"}, FALSE) # <<>>
        /\ Len(IssuesOf(result.verdicts[i])) > 2
        /\ result.verdicts[j].status = "timeout"
        /\ IssuesOf(result.verdicts[j]) # <<>>
    /\ consensus.critical_issues = <<"dup", "desc", "late">>
    /\ Len(consensus.recommendations) = 4

\* C17: the lists hold the strings of every known field of every verdict,
\* plain strings and title/description objects alike, each once, in order of
\* first occurrence.
C17_ListsAsClaimed ==
    (Merged /\ CompletedAt # {}) =>
        /\ FirstOccurrences(consensus.critical_issues,
              Concat([i \in DOMAIN result.verdicts |-> ClaimedIssuesOf(result.verdicts[i])]))
        /\ FirstOccurrences(consensus.recommendations,
              Concat([i \in DOMAIN result.verdicts |-> ClaimedRecommendationsOf(result.verdicts[i])]))

(***************************************************************************)
(* Order of the stages of a review cycle                                   *)
(***************************************************************************)
SomeRunning == \E i \in DOMAIN proc : proc[i] = Running

\* The files of the cycle under .tenth-man/active and .tenth-man/history,
\* and the index beside them.
ReportFiles == {REVIEW_MD, OUTCOME_JSON, INDEX_JSON}

\* C20: the consensus of a cycle exists only when every process-backed
\* invocation of the cycle has settled and its process has ended, the report
\* or history files exist only when the consensus does, and none of them
\* exists while a process of the cycle is running.
C20_StagesInOrder ==
    /\ consensus # NoConsensus =>
          /\ pc \in {"merged", "reported"}
          /\ \A i \in DOMAIN promise : promise[i].state # "pending"
          /\ ~SomeRunning
    /\ files \cap ReportFiles # {} => consensus # NoConsensus
    /\ SomeRunning => files \cap ReportFiles = {}

\* A cycle with two processes, one of them timed out, has written its
\* review file.
C20_Witness ==
    /\ pc = "reported"
    /\ Len(proc) = 2
    /\ \E i \in DOMAIN proc : proc[i].kind = "timeout"
    /\ REVIEW_MD \in files
    /\ consensus.verdict \in Verdict

(***************************************************************************)
(* A review with no external backend                                       *)
(***************************************************************************)
Returned == pc \in {"done", "merged", "reported"}

\* C21: in a review of a configuration with no external backend the resolver
\* gives three delegated assignments, executeAgents returns no verdict and
\* three instructions, and the consensus is proceed_with_changes at
\* confidence 0.2 with exactly one issue, the synthetic one.
C21_NoBackendReview ==
    (entry = "resolver" /\ config.available_agents = {}) =>
        /\ Len(assignments) = 3
        /\ \A i \in DOMAIN assignments : assignments[i].via = "subagent_prompt"
        /\ {assignments[i].role : i \in DOMAIN assignments} = Roles
        /\ Returned => /\ result.verdicts = <<>>
                       /\ Len(result.subagent_prompts) = 3
        /\ Merged => /\ consensus.verdict = "proceed_with_changes"
                     /\ consensus.confidence = DegradedConfidence
                     /\ consensus.critical_issues = <<AllFailedIssue>>

C21_Witness ==
    /\ pc = "reported"
    /\ entry = "resolver"
    /\ config.available_agents = {}
    /\ Len(result.subagent_prompts) = 3
    /\ consensus.confidence = DegradedConfidence

(***************************************************************************)
(* Order of the verdict list                                               *)
(***************************************************************************)
\* C28: the verdict list executeAgents returns has one verdict per subprocess
\* assignment, the i-th with the role, engine and model of the i-th
\* subprocess assignment, in whatever order the invocations settled.
C28_VerdictsInAssignmentOrder ==
    Returned =>
        /\ Len(result.verdicts) = Len(ext)
        /\ \A i \in DOMAIN ext :
            /\ result.verdicts[i].role = ext[i].role
            /\ result.verdicts[i].engine = ext[i].engine
            /\ result.verdicts[i].model = ext[i].model

\* The second invocation settled before the first, one by a failure and one
\* by a completed review.
C28_Witness ==
    /\ pc = "done"
    /\ Len(ext) >= 2
    /\ Len(settleOrder) >= 2
    /\ settleOrder[1] > settleOrder[2]
    /\ result.verdicts[settleOrder[1]].status = "completed"
    /\ result.verdicts[settleOrder[2]].status = "timeout"

(***************************************************************************)
(* Review input in the prompt                                              *)
(***************************************************************************)
\* part occurs in text as a run of consecutive tokens.
Contains(text, part) ==
    \E k \in 0..(Len(text) - Len(part)) : SubSeq(text, k + 1, k + Len(part)) = part

\* The template with each of its placeholders replaced by the text of its
\* field, as it is.
Embedded(template, in) ==
    Concat([i \in DOMAIN template |->
        IF \E n \in DOMAIN Placeholders : template[i] = Placeholders[n]
        THEN replacements(in)[CHOOSE n \in DOMAIN Placeholders : template[i] = Placeholders[n]]
        ELSE <<template[i]>>])

\* C27: the prompt built for a role holds the task description, the proposed
\* changes, every affected file path and every context file path (or the
\* marker "(none provided)") as they were given, and is the template with
\* each placeholder replaced by the text of its field unchanged, whatever
\* placeholder or replacement pattern that text holds.
C27_InputEmbeddedUnchanged ==
    (entry = "builder" /\ pc = "done") =>
        /\ Contains(result.prompt, result.input.task_description)
        /\ Contains(result.prompt, result.input.proposed_changes)
        /\ \A i \in DOMAIN result.input.affected_files :
              Contains(result.prompt, result.input.affected_files[i])
        /\ IF result.input.context_files.t = "undefined"
           THEN Contains(result.prompt, <<NONE_PROVIDED>>)
           ELSE \A i \in DOMAIN result.input.context_files.items :
                   Contains(result.prompt, result.input.context_files.items[i])
        /\ result.prompt = Embedded(templateText(result.template), result.input)

(***************************************************************************)
(* Precedence of the configuration sources                                 *)
(***************************************************************************)
Given(source, field) == source[field].t = "value"

\* The value of a field of the runtime configuration, as the source values
\* are compared with: a list of agents counts as the set of its members.
Held(field, value) ==
    IF field = "available_agents" THEN runtimeConfig[field] = Range(value)
    ELSE runtimeConfig[field] = value

BuiltInDefault(field) ==
    CASE field = "timeout_seconds" -> TimeoutDefault
      [] field = "auto_trigger_patterns" -> DefaultPatterns
      [] field = "default_mode" -> "standard"

\* C26: every field of the configuration buildRuntimeConfig returns is the
\* call-time override when one is given, else the persisted value when the
\* config file holds one, else the built-in default or, for
\* available_agents, the detected set.
C26_SourcePrecedence ==
    (entry = "loader" /\ pc = "done") =>
        LET overrides == requests[1].args
            stored == loadRepoConfig(persisted)
        IN  \A field \in DOMAIN overrides :
                IF Given(overrides, field) THEN Held(field, overrides[field].v)
                ELSE IF Given(stored, field) THEN Held(field, stored[field].v)
                ELSE IF field = "available_agents" THEN runtimeConfig[field] = detected
                ELSE runtimeConfig[field] = BuiltInDefault(field)

\* An override and a different persisted value for the timeout, and agents
\* persisted while others are detected.
C26_Witness ==
    /\ entry = "loader"
    /\ pc = "done"
    /\ requests[1].args.timeout_seconds = Some(TimeoutMin)
    /\ persisted.t = "json"
    /\ persisted.v.timeout_seconds = Some(240)
    /\ requests[1].args.available_agents = JUndefined
    /\ persisted.v.available_agents = Some(<<"codex">>)
    /\ detected = {"gemini"}
    /\ runtimeConfig.timeout_seconds = TimeoutMin
    /\ runtimeConfig.available_agents = {"codex"}

(***************************************************************************)
(* Requests of the server                                                  *)
(***************************************************************************)
IsReview(req) == req.tool = "tenth_man_review"

HasReturned(req) == req.pc = "returned"

\* Request r returns in this step.
ReturnsNow(r) ==
    /\ r \in DOMAIN requests'
    /\ HasReturned(requests'[r])
    /\ r \in DOMAIN requests => ~HasReturned(requests[r])

\* C29: once the only tenth_man_configure call has returned, every value it
\* gave is the value runtimeConfig holds, however the call was interleaved
\* with a getConfig that found runtimeConfig null.
C29_ConfiguredValuesHeld ==
    \A r \in DOMAIN requests :
        (/\ requests[r].tool = "tenth_man_configure"
         /\ HasReturned(requests[r])
         /\ \A q \in DOMAIN requests :
               q # r => requests[q].tool # "tenth_man_configure") =>
            \A field \in DOMAIN requests[r].args :
                Given(requests[r].args, field) => Held(field, requests[r].args[field].v)

(***************************************************************************)
(* Modes of a review                                                       *)
(***************************************************************************)
\* C25: the mode of a review is its mode argument if given, else the
\* default_mode of its configuration; a review that returns in standard mode
\* has written the active REVIEW.md, answers review_complete and leaves
\* history and index as they were; one that returns in auto mode has written
\* no REVIEW.md, has added one history directory and one index entry, its
\* own, and answers auto_approved.
C25_ModeDecidesOutput ==
    [][\A r \in DOMAIN requests' :
          (IsReview(requests'[r]) /\ ReturnsNow(r)) =>
              LET req == requests'[r]
              IN  /\ req.local.mode = IF req.args.mode.t = "value" THEN req.args.mode.v
                                      ELSE req.local.config.default_mode
                  /\ req.local.mode = "standard" =>
                        /\ active'.review = File(r)
                        /\ req.response.status = "review_complete"
                        /\ req.response.review_file = Some(REVIEW_MD)
                        /\ history' = history
                        /\ index' = index
                  /\ req.local.mode = "auto" =>
                        /\ active'.review # File(r)
                        /\ req.response.status = "auto_approved"
                        /\ req.response.review_file = JUndefined
                        /\ Len(history') = Len(history) + 1
                        /\ history'[Len(history')].audit = r
                        /\ index' = <<index'[1]>> \o index
                        /\ index'[1].audit_id = r
                        /\ index'[1].mode = "auto"
                  /\ req.local.mode \in {"standard", "auto"}]_vars

\* A review without a mode argument has run in auto mode by the configured
\* default and is first in the index.
C25_Witness ==
    \E r \in DOMAIN requests :
        /\ IsReview(requests[r])
        /\ HasReturned(requests[r])
        /\ requests[r].local.config.default_mode = "auto"
        /\ requests[r].args.mode = JUndefined
        /\ requests[r].response.status = "auto_approved"
        /\ index # <<>>
        /\ index[1].audit_id = r

(***************************************************************************)
(* Response of a review                                                    *)
(***************************************************************************)
\* C22: the response of a returned review holds the consensus, lists every
\* delegated assignment as pending, and has for every verdict of a
\* subprocess assignment an entry under its role with the verdict's status
\* and, when the status is not completed, the verdict's error text.
C22_ResponseHoldsErrors ==
    \A r \in DOMAIN requests :
        (IsReview(requests[r]) /\ HasReturned(requests[r])) =>
            LET req == requests[r]
                delegated == claudeAssignmentsOf(req.local.assignments)
            IN  /\ "summary" \in DOMAIN req.response
                /\ req.response.summary.verdict = computeConsensus(req.local.verdicts).verdict
                /\ delegated # <<>> =>
                      /\ req.response.pending_subagents.t = "array"
                      /\ \A i \in DOMAIN delegated :
                            \E k \in DOMAIN req.response.pending_subagents.items :
                                req.response.pending_subagents.items[k].role =
                                    delegated[i].role
                /\ \A i \in DOMAIN req.local.verdicts :
                      LET v == req.local.verdicts[i]
                      IN  /\ v.role \in DOMAIN req.response.agent_verdicts
                          /\ req.response.agent_verdicts[v.role].status = v.status
                          /\ v.status # "completed" =>
                                /\ "error" \in DOMAIN req.response.agent_verdicts[v.role]
                                /\ req.response.agent_verdicts[v.role].error = v.error

(***************************************************************************)
(* Finalising a review                                                     *)
(***************************************************************************)
\* C23: a tenth_man_compile call made after a review that returned pending
\* delegated roles answers with the consensus over the review's verdicts and
\* the delegated verdicts it was handed.
C23_CompileRecomputes ==
    \A q \in DOMAIN requests :
        (/\ requests[q].tool = "tenth_man_compile"
         /\ HasReturned(requests[q])
         /\ \E r \in 1..(q - 1) :
               /\ IsReview(requests[r])
               /\ HasReturned(requests[r])
               /\ requests[r].response.pending_subagents.t = "array") =>
            /\ requests[q].response.status # "error"
            /\ "summary" \in DOMAIN requests[q].response
            /\ \E r \in 1..(q - 1) :
                  /\ IsReview(requests[r])
                  /\ HasReturned(requests[r])
                  /\ requests[q].response.summary.verdict =
                        computeConsensus(requests[r].local.verdicts
                                         \o requests[q].args.verdicts).verdict

(***************************************************************************)
(* Audit history                                                           *)
(***************************************************************************)
InIndex(r) == \E k \in DOMAIN index : index[k].audit_id = r

\* Every request has returned, no further one is made, and the host has
\* written the plan of every standard review.
WorkflowsDone ==
    /\ Len(requests) = MaxRequests
    /\ \A r \in DOMAIN requests :
          /\ HasReturned(requests[r])
          /\ (IsReview(requests[r]) /\ requests[r].local.mode = "standard") =>
                \/ active.plan = File(r)
                \/ \E k \in DOMAIN history : history[k].plan = File(r)

\* C24: once the workflows are done, every review, standard or auto, has
\* its history directory and its entry in index.json, which readHistory
\* gives back.
C24_EveryReviewArchived ==
    WorkflowsDone =>
        \A r \in DOMAIN requests :
            IsReview(requests[r]) =>
                /\ InIndex(r)
                /\ \E k \in DOMAIN history : history[k].audit = r
                /\ \E k \in DOMAIN readHistory(index, DefaultLastN) :
                      readHistory(index, DefaultLastN)[k].audit_id = r

(***************************************************************************)
(* Files of concurrent review cycles                                       *)
(***************************************************************************)
\* C30: a review that returns leaves the active REVIEW.md and PLAN.md of
\* every other review as they are, and the review.md and plan.md of every
\* history directory are those of the directory's own review.
C30_NoCrossCycleFiles ==
    [][\A r \in DOMAIN requests' :
          (IsReview(requests'[r]) /\ ReturnsNow(r)) =>
              /\ (active.review # NoFile /\ active.review # File(r)) =>
                    active'.review = active.review
              /\ (active.plan # NoFile /\ active.plan # File(r)) =>
                    active'.plan = active.plan
              /\ \A k \in DOMAIN history' :
                    /\ history'[k].review \in {NoFile, File(history'[k].audit)}
                    /\ history'[k].plan \in {NoFile, File(history'[k].audit)}]_vars

====
